---- MODULE Spec2Model ----
(***************************************************************************)
(* Verification model of sciety-discovery / sciety-labs.                   *)
(*                                                                         *)
(* Eight subsystems are modelled, each with its own specification over the *)
(* same variables; a specification pins the variables of the others:       *)
(*   SpecCache      the TTL single-value cache behind                      *)
(*                  ScietyEventProvider.get_sciety_event_dict_list         *)
(*                  (SpecCacheFair: the same with a terminating load_fn)   *)
(*   SpecPage       one page request through the search route and the      *)
(*                  ArticleAggregator pipeline                             *)
(*   SpecScheduler  create_app's startup and the background refresh of     *)
(*                  AppUpdateManager                                       *)
(*   SpecSnapshot   reload and lookups of GoogleSheetArticleImageProvider  *)
(*   SpecLists      ScietyEventListsModel: the fold over the events and    *)
(*                  get_most_active_user_lists                             *)
(*   SpecLogging    the threaded_logging context manager                   *)
(*   SpecRecommendation  the recommendation page and count, and the        *)
(*                  OpenSearch single article recommendation provider      *)
(*   SpecRedirect   RedirectDoubleQueryStringMiddleware and a client that  *)
(*                  follows its redirects                                  *)
(*                                                                         *)
(* sciety_labs/utils/cache.py, sciety_labs/utils/pagination.py,            *)
(* sciety_labs/utils/async_utils.py, sciety_labs/app/app_update_manager.py,*)
(* the Crossref metadata provider and the evaluation stats model are not   *)
(* part of the source tree at hand; their behaviour is taken from spec.md  *)
(* (sections 4.1 to 4.6).  Where spec.md leaves the policy open (cache     *)
(* miss while a load is in flight) the blocking policy is modelled: late   *)
(* callers attach to the in-flight load and receive its outcome.           *)
(***************************************************************************)
EXTENDS Integers, Sequences, FiniteSets, TLC

\* ------------------------------------------------------------------ bounds
NumCallers == 2
MaxLoads == 3
MaxTicks == 3
TickSeconds == 1800
NumPreprintDois == 2
MaxLen == 4
MaxPage == 3
MaxItemsPerPage == 2
MaxRequests == 2
MaxSheetVersions == 3
NumReaders == 1
NumLists == 1
NumArticles == 2
MaxTimestamp == 2
MaxEvents == 3
NumLoggers == 2
MaxRecords == 1
MaxHandles == 2
MaxRecommendations == 2
MaxQueryLen == 4

\* ------------------------------------------------------- program constants
\* sciety_discovery/main.py:17  max_age_in_seconds = 60 * 60
max_age_in_seconds == 60 * 60
\* sciety_labs/main.py:71  update_interval_in_secs = 60 * 60  # 1 hour
update_interval_in_secs == 60 * 60
\* sciety_labs/providers/opensearch_article_recommendation.py:20
DEFAULT_OPENSEARCH_MAX_RECOMMENDATIONS == 5

Callers == 1 .. NumCallers
MaxTime == MaxTicks * TickSeconds

InMemorySingleObjectCache == "InMemorySingleObjectCache"
DummySingleObjectCache == "DummySingleObjectCache"
NoCache == "None"

\* Outcomes of a call or of a load: nothing yet, a value, or the failure.
NoOutcome == [kind |-> "none", value |-> 0]
Running == [kind |-> "running", value |-> 0]
Failure == [kind |-> "failure", value |-> 0]
Value(v) == [kind |-> "value", value |-> v]

\* Cache Entry {value, loaded_at}; present = FALSE while the cache holds none.
NoEntry == [present |-> FALSE, value |-> 0, loaded_at |-> 0]

VARIABLES
    \* ---- cache subsystem
    now,                   \* monotonic clock, seconds
    suppliedCache,         \* the query_results_cache argument given to ScietyEventProvider
    query_results_cache,   \* ScietyEventProvider._query_results_cache (the variant in use)
    entry,                 \* Cache Entry (NoEntry while the cache holds none)
    inflight,              \* Refresh Coordination State: 0 or the id of the load in flight
    loadResult,            \* per load id: NoOutcome (not started), Running, Value(v) or Failure
    loadCount,             \* number of load_fn invocations so far
    pc,                    \* per caller: "idle", "loading", "waiting", "returned"
    loadOf,                \* per caller: id of the load it runs or waits on (0: none)
    via,                   \* per caller: how its current call was answered: "hit", "load", "wait"
    entryAtCall,           \* per caller: the Cache Entry when its current call began
    result                 \* per caller: NoOutcome, Value(v) returned by get_or_load, or Failure

VARIABLES
    \* ---- page request (search route and ArticleAggregator)
    search_result,            \* the items the search provider's iterable holds, in order (DOIs)
    search_result_iterator,   \* [items, pos]: the iterator of the route and how far it was pulled
    page,                     \* pagination_parameters.page
    items_per_page,           \* pagination_parameters.items_per_page (0: None; -1: a negative number)
    debug,                    \* LOGGER.isEnabledFor(logging.DEBUG), as the aggregator finds it
    image_url_by_doi,         \* GoogleSheetArticleImageProvider.image_url_by_doi (0: no entry)
    rpc,                      \* position of the request
    statsOut,                 \* records the stats stage has emitted so far
    metaRequest,              \* keys of the batched request sent to the metadata provider
    metaCalls,                \* number of calls made to the metadata provider
    metaError,                \* the error the metadata provider failed with ("none": no failure)
    crossref_known,           \* the DOIs the metadata provider has metadata for, once asked
    withMeta,                 \* records the metadata stage emitted
    withImage,                \* records the image stage emitted (what the aggregator yields)
    first_item,               \* the item the DEBUG look-ahead logged ({} when none)
    aggResult,                \* outcome of the aggregator: [raised, error, items]
    search_results,           \* search_result_list_with_article_meta
    response,                 \* the response of the route: status, message and pagination state
    aggregator_iterable,      \* what the aggregator's final loop iterates: [buffer, it]
    producedTimes,            \* per record of the image stage: how often it was produced
    upstreamError,            \* the error the search provider failed with ("none": no failure)
    upstreamPulls,            \* number of times the provider's iterator was asked for an item
    paginationError           \* the error the provider's iterator failed with in the
                              \* look-ahead of the pagination state ("none": no failure)

VARIABLES
    \* ---- startup and background refresh (create_app and AppUpdateManager)
    clock,          \* time since the process began, seconds
    mainPc,         \* create_app: "init", "started", "preloading", "serving", "crashed"
    schedAlive,     \* the scheduler started by AppUpdateManager.start is running
    nextDue,        \* the time the scheduler's next run is due
    runState,       \* per run of the reload action: "none", "loading", "waiting", "ok", "failed"
    runBy,          \* per run: "scheduler" or "preload" ("none": not begun)
    runOn,          \* per run: the run whose load it uses (itself when it loads)
    reloadInflight, \* the run whose load is in flight (0: none)
    errorLog,       \* number of reload failures the scheduler has logged
    served          \* number of requests served

schedVars == << clock, mainPc, schedAlive, nextDue, runState, runBy, runOn,
                reloadInflight, errorLog, served >>

VARIABLES
    \* ---- image mapping snapshot (GoogleSheetArticleImageProvider)
    sheet_version,   \* which content the Google sheet has now
    constructed,     \* __init__ has returned: the provider is in use
    reloadPc,        \* reload(): "idle", "loading" (in load_mapping), "assign", "dead"
    loaded_mapping,  \* the mapping load_mapping returned, not assigned yet
    lastReload,      \* how the last reload ended: "none", "ok", "failed"
    readerPc,        \* per reader: "idle", "read" (has read the attribute), "got"
    readerDoi,       \* per reader: the DOI it looks up
    readerRef,       \* per reader: the mapping it read from self.image_url_by_doi
    readerResult     \* per reader: what get_article_image_url_by_doi returned

snapVars == << sheet_version, constructed, reloadPc, loaded_mapping, lastReload,
               readerPc, readerDoi, readerRef, readerResult >>

VARIABLES
    \* ---- lists model (ScietyEventListsModel)
    listsPc,                      \* "folding" (in __init__), "rejected", "constructed",
                                  \* "summarized", "raised"
    eventsFolded,                 \* number of events __init__ has gone through
    sciety_list_meta_by_list_id,  \* _sciety_list_meta_by_list_id: its keys in insertion order
    owner_meta_by_list_id,        \* _owner_meta_by_list_id: per list whether it has the key
    article_ids_by_list_id,       \* _article_ids_by_list_id: per list the set of article ids
    last_updated_by_list_id,      \* _last_updated_by_list_id: per list a timestamp (0: no key)
    summaries,                    \* what get_most_active_user_lists returned
    articleEvents,                \* per list and article, of the events given so far: the
                                  \* name of the last add or remove event, and the number of adds
    timestampEvents               \* per list, of the events given so far that carry an
                                  \* article id: the latest event_timestamp (0: none), and
                                  \* whether they came in the order of their timestamps

VARIABLES
    \* ---- threaded_logging (sciety_labs/utils/logging.py)
    logPc,                        \* "before", "replacing" (the for loop), "starting",
                                  \* "active" (the with body), "finally", "joining", "exited"
    loggerHandlers,               \* logger.handlers of each given logger
    handlersAtEntry,              \* logger.handlers of each given logger when the context
                                  \* was entered
    original_handlers_list,       \* original_handlers_list
    queue_handlers,               \* queue_handlers
    logging_queue,                \* logging_queue: record ids, 0 is the listener's sentinel
    listenerState,                \* "none", "running", "stopped"
    listenerHandlers,             \* the handlers the QueueListener passes records to
    recordLogger,                 \* per record the logger it was logged through (0: not logged)
    streamDeliveries,             \* per record, how often a stream handler was passed it
    handled,                      \* number of records the listener thread has handled
    bodyOutcome                   \* "none", "returned", "raised"

logVars == << logPc, loggerHandlers, handlersAtEntry, original_handlers_list, queue_handlers,
              logging_queue, listenerState, listenerHandlers, recordLogger,
              streamDeliveries, handled, bodyOutcome >>

VARIABLES
    \* ---- article recommendations (recommendation.py, opensearch_article_recommendation.py)
    recPc,                        \* "request", "searching", "listed", "done", "raised"
    article_dois,                 \* article_dois of the call
    max_recommendations,          \* max_recommendations of the call (0: None)
    single_article_recommendation_provider,  \* whether the app has one
    recVia,                       \* "none", "single" (OpenSearch), "multiple"
    opensearch_doc,               \* what the index holds for the article: "unread",
                                  \* "missing", "no_vector", "found"
    hits,                         \* DOIs of the hits the vector search returned
    article_recommendation_list,  \* DOIs of article_recommendation_list.recommendations
    pagination_parameters,        \* page and items_per_page of the call
    article_recommendation_with_article_meta,  \* the page returned
    item_count                    \* the item count returned

recVars == << recPc, article_dois, max_recommendations,
              single_article_recommendation_provider, recVia, opensearch_doc, hits,
              article_recommendation_list, pagination_parameters,
              article_recommendation_with_article_meta, item_count >>

VARIABLES
    \* ---- RedirectDoubleQueryStringMiddleware (sciety_labs/utils/uvicorn.py)
    redirPc,                      \* "sent" (a request is at the middleware), "redirected"
                                  \* (the client has a 301 answer), "app" (the app was called)
    first_request_query,          \* the query string of the client's first request
    request_query,                \* the query string of the request at the middleware
    redirect_response,            \* the RedirectResponse sent: status_code, url
    app_query,                    \* the query string of the scope the wrapped app was
                                  \* called with ({}: not called)
    redirects                     \* number of redirects the client has followed

redirVars == << redirPc, first_request_query, request_query, redirect_response,
                app_query, redirects >>

\* The subsystems modelled after the lists model.
laterVars == << logVars, recVars, redirVars >>

listVars == << listsPc, eventsFolded, sciety_list_meta_by_list_id, owner_meta_by_list_id,
               article_ids_by_list_id, last_updated_by_list_id, summaries, articleEvents,
               timestampEvents >>

pageVars == << search_result, search_result_iterator, page, items_per_page, debug,
               image_url_by_doi, rpc, statsOut, metaRequest, metaCalls, metaError,
               crossref_known,
               withMeta, withImage, first_item, aggResult, search_results, response,
               aggregator_iterable, producedTimes, upstreamError, upstreamPulls,
               paginationError >>

cacheVars == << now, suppliedCache, query_results_cache, entry, inflight,
                loadResult, loadCount, pc, loadOf, via, entryAtCall, result >>

\* What the actions of one subsystem leave alone.
pageVarsButMapping ==
    << search_result, search_result_iterator, page, items_per_page, debug,
       rpc, statsOut, metaRequest, metaCalls, metaError, crossref_known,
       withMeta, withImage, first_item, aggResult, search_results, response,
       aggregator_iterable, producedTimes, upstreamError, upstreamPulls,
       paginationError >>
notCacheVars == << pageVars, schedVars, snapVars, listVars, laterVars >>
notPageVars == << cacheVars, schedVars, snapVars, listVars, laterVars >>
notSchedVars == << cacheVars, pageVars, snapVars, listVars, laterVars >>
notSnapVars == << cacheVars, pageVarsButMapping, schedVars, listVars, laterVars >>
notListVars == << cacheVars, pageVars, schedVars, snapVars, laterVars >>
earlierVars == << cacheVars, pageVars, schedVars, snapVars, listVars >>
notLogVars == << earlierVars, recVars, redirVars >>
notRecVars == << earlierVars, logVars, redirVars >>
notRedirVars == << earlierVars, logVars, recVars >>

vars == << cacheVars, pageVars, schedVars, snapVars, listVars, laterVars >>

LoadIds == 1 .. MaxLoads


\* ------------------------------------------------------------ page request
\* DOI 0 stands for a DOI that is not a preprint DOI, 1 .. NumPreprintDois
\* for preprint DOIs.
Dois == 0 .. NumPreprintDois
is_preprint_doi(d) == d # 0

\* image_url_by_doi = {}: no DOI has an entry (0: no entry).
EmptyMapping == [d \in Dois |-> 0]

RECURSIVE SeqsUpTo(_, _)
SeqsUpTo(S, n) ==
    IF n = 0 THEN {<< >>}
    ELSE LET shorter == SeqsUpTo(S, n - 1)
         IN  shorter \cup {Append(s, x) : s \in {t \in shorter : Len(t) = n - 1}, x \in S}

Min(a, b) == IF a < b THEN a ELSE b
Max(a, b) == IF a > b THEN a ELSE b
DoisOf(records) == [i \in 1 .. Len(records) |-> records[i].article_doi]

\* items_per_page is Optional[int]; None is written 0, and -1 stands for a
\* number that is not positive.
IsAbsent(k) == k = 0

\* ArticleMention as the source yields it: the identity key, every slot empty.
ArticleMention(doi) ==
    [article_doi |-> doi, article_stats |-> {}, article_meta |-> {}, article_images |-> {}]

\* iter_preprint_article_mention: keeps the mentions with a preprint DOI.
RECURSIVE iter_preprint_article_mention(_)
iter_preprint_article_mention(dois) ==
    IF dois = << >> THEN << >>
    ELSE IF is_preprint_doi(Head(dois))
         THEN << Head(dois) >> \o iter_preprint_article_mention(Tail(dois))
         ELSE iter_preprint_article_mention(Tail(dois))

\* Position of the next item after pos that passes the preprint filter
\* (0 when the rest of the iterator holds none).
NextPreprintPos(it) ==
    LET later == {i \in (it.pos + 1) .. Len(it.items) : is_preprint_doi(it.items[i])}
    IN  IF later = {} THEN 0 ELSE CHOOSE i \in later : \A j \in later : i <= j

\* Stats stage: one lookup in the evaluation stats snapshot per item (an
\* article without evaluations has count 0).
EvaluationCount(doi) == doi % 2
with_article_stats(m) ==
    [m EXCEPT !.article_stats = {[evaluation_count |-> EvaluationCount(m.article_doi)]}]

\* Page Windower (spec.md 4.2): skip offset items, then take at most
\* items_per_page; the input unchanged when items_per_page is absent.
RECURSIVE Skip(_, _)
Skip(s, n) == IF n <= 0 \/ s = << >> THEN s ELSE Skip(Tail(s), n - 1)
RECURSIVE Take(_, _)
Take(s, n) == IF n <= 0 \/ s = << >> THEN << >> ELSE << Head(s) >> \o Take(Tail(s), n - 1)
PageOffset(pg, k) == (Max(pg, 1) - 1) * k
get_page_iterable(s, pg, k) ==
    IF IsAbsent(k) THEN s ELSE Take(Skip(s, PageOffset(pg, k)), k)

\* Metadata stage on one batched answer: a record whose key was answered
\* gets its metadata, a record whose key was omitted keeps the slot empty.
\* The provider answers the requested keys it has metadata for.
ArticleMetaData(doi) == [article_doi |-> doi, article_title |-> doi]
with_article_meta(records, answered) ==
    [i \in 1 .. Len(records) |->
        IF records[i].article_doi \in answered
        THEN [records[i] EXCEPT !.article_meta = {ArticleMetaData(records[i].article_doi)}]
        ELSE records[i]]

\* GoogleSheetArticleImageProvider.get_article_images_by_doi
ArticleImages(image_url) == [image_url |-> image_url]
get_article_images_by_doi(mapping, doi) == ArticleImages(mapping[doi])

\* GoogleSheetArticleImageProvider.iter_article_mention_with_article_image_url:
\* every mention is replaced by a copy with article_images set.
iter_article_mention_with_article_image_url_drop(mapping, records) ==
    SelectSeq([i \in 1 .. Len(records) |->
                  [records[i] EXCEPT !.article_images =
                      {get_article_images_by_doi(mapping, records[i].article_doi)}]],
              LAMBDA m : mapping[m.article_doi] # 0)
iter_article_mention_with_article_image_url_rebuilt(mapping, records) ==
    [i \in 1 .. Len(records) |->
        [ArticleMention(records[i].article_doi) EXCEPT !.article_images =
            {get_article_images_by_doi(mapping, records[i].article_doi)}]]
iter_article_mention_with_article_image_url(mapping, records) ==
    [i \in 1 .. Len(records) |->
        [records[i] EXCEPT !.article_images =
            {get_article_images_by_doi(mapping, records[i].article_doi)}]]

\* The image mapping a request finds loaded: the sheet has a row for every
\* DOI from 2 on, none for the others (0: no entry).
ImageMappings == { [d \in Dois |-> IF d >= 2 THEN d ELSE 0] }

\* What the metadata provider may know: every preprint DOI, or the odd ones.
CrossrefKnownSets ==
    { {d \in Dois : is_preprint_doi(d)}, {d \in Dois : d % 2 = 1} }

\* ArticleAggregator.async_iter_page_article_mention_with_article_meta_and_stats:
\* the order in which it wraps its input.
AggregatorStages_meta_before_page == << "stats", "meta", "page", "image" >>
AggregatorStages_without_meta == << "stats", "page", "image" >>
AggregatorStages == << "stats", "page", "meta", "image" >>

StageIndex(name) ==
    LET at == {i \in 1 .. Len(AggregatorStages) : AggregatorStages[i] = name}
    IN  IF at = {} THEN 0 ELSE CHOOSE i \in at : TRUE
HasStage(name) == StageIndex(name) # 0
WindowBeforeMeta == ~HasStage("meta") \/ StageIndex("page") < StageIndex("meta")

\* The route hands page and items_per_page of the request to the aggregator.
search_page_args_zero_based(pg, k) == [page |-> pg - 1, items_per_page |-> k]
search_page_args_no_limit(pg, k) == [page |-> pg, items_per_page |-> 0]
search_page_args(pg, k) == [page |-> pg, items_per_page |-> k]

AggPage == search_page_args(page, items_per_page).page
AggItemsPerPage == search_page_args(page, items_per_page).items_per_page

\* What the metadata stage has received so far from the stage it wraps.
MetaInput ==
    IF WindowBeforeMeta THEN get_page_iterable(statsOut, AggPage, AggItemsPerPage)
    ELSE statsOut

\* The stage below the metadata stage still asks for items: the windower
\* stops pulling once it has yielded items_per_page items.
WantsMore ==
    IF WindowBeforeMeta /\ ~IsAbsent(AggItemsPerPage)
    THEN Len(MetaInput) < AggItemsPerPage
    ELSE TRUE

\* The aggregator has no handler around its stages: an error of the metadata
\* provider ends the iteration with that error and nothing is yielded.
aggregator_on_meta_error_swallowed(err, buffered) ==
    [raised |-> FALSE, error |-> err, items |-> buffered]
aggregator_on_meta_error(err, buffered) ==
    [raised |-> TRUE, error |-> err, items |-> << >>]

NoResult == [raised |-> FALSE, error |-> "none", items |-> << >>]
NoResponse ==
    [sent |-> FALSE, status_code |-> "none", error_message |-> FALSE,
     is_empty |-> FALSE, has_previous |-> FALSE, has_next |-> FALSE]

\* Errors a provider call can end with: the HTTP error the route handles
\* (requests.exceptions.HTTPError) and any other transport error.
ProviderErrors == {"HTTPError", "TransportError"}
\* Status an upstream HTTP error carries in the model.
UpstreamStatus == "upstream"
OkStatus == "200"

\* iter(search_result_iterable): an iterator over the provider's result, and
\* iter([]): an iterator over nothing.  source tells the two apart.
ProviderIterator(items) == [items |-> items, pos |-> 0, source |-> "provider"]
EmptyIterator == [items |-> << >>, pos |-> 0, source |-> "empty"]

\* except HTTPError: the route goes on with search_result_iterator = iter([]).
route_iterator_after_http_error_kept(it) == it
route_iterator_after_http_error(it) == EmptyIterator

\* An iterable as the aggregator's final loop sees it: items a look-ahead
\* holds back (buffer) in front of the iterator it pulls from.
PlainIterable(S) == [buffer |-> << >>, it |-> [items |-> S, pos |-> 0]]
NoIterable == PlainIterable(<< >>)

\* async_get_iterable_and_look_ahead_one: pulls one item if there is one;
\* returns it (or nothing) and an iterable that yields it first and then
\* what is left of the iterator.
async_get_iterable_and_look_ahead_one(iterable) ==
    LET it == iterable.it
        has == it.pos < Len(it.items)
    IN  IF iterable.buffer # << >>
        THEN [iterable |-> iterable, first_item |-> {Head(iterable.buffer)}, pulled |-> {}]
        ELSE IF has
        THEN [iterable |-> [buffer |-> << it.items[it.pos + 1] >>,
                            it |-> [it EXCEPT !.pos = it.pos + 1]],
              first_item |-> {it.items[it.pos + 1]},
              pulled |-> {it.pos + 1}]
        ELSE [iterable |-> iterable, first_item |-> {}, pulled |-> {}]

\* The aggregator rebinds its iterable to the one the look-ahead returned.
\* looked is the result of the look-ahead.
iterable_after_look_ahead_not_rebound(looked) ==
    [buffer |-> << >>, it |-> looked.iterable.it]
iterable_after_look_ahead_independent(looked) ==
    [buffer |-> << >>, it |-> [looked.iterable.it EXCEPT !.pos = 0]]
iterable_after_look_ahead(looked) == looked.iterable

\* async for item in iterable: yield item -- what the loop yields, and the
\* positions of the iterator it pulls.
Drain(iterable) ==
    iterable.buffer \o SubSeq(iterable.it.items, iterable.it.pos + 1, Len(iterable.it.items))
PulledByDrain(iterable) == iterable.it.pos + 1 .. Len(iterable.it.items)

\* The stats stage and the windower have no handler: an error of the search
\* provider's iterator ends the aggregator with that error.
aggregator_on_upstream_error(err) == [raised |-> TRUE, error |-> err, items |-> << >>]

\* No page request exists (the cache specification leaves these alone).
NoPageRequest ==
    /\ search_result = << >>
    /\ search_result_iterator = EmptyIterator
    /\ page = 1
    /\ items_per_page = 0
    /\ debug = FALSE
    /\ image_url_by_doi = EmptyMapping
    /\ rpc = "none"
    /\ statsOut = << >>
    /\ metaRequest = << >>
    /\ metaCalls = 0
    /\ metaError = "none"
    /\ crossref_known = {}
    /\ withMeta = << >>
    /\ withImage = << >>
    /\ first_item = {}
    /\ aggResult = NoResult
    /\ search_results = << >>
    /\ response = NoResponse
    /\ aggregator_iterable = NoIterable
    /\ producedTimes = << >>
    /\ upstreamError = "none"
    /\ upstreamPulls = 0
    /\ paginationError = "none"

\* Runs of the reload action: one per interval that begins within MaxTime,
\* and the preload of create_app.
MaxRuns == (MaxTime \div update_interval_in_secs) + 2
RunIds == 1 .. MaxRuns

\* No process startup is modelled (the cache and page specifications leave
\* these alone).
NoScheduler ==
    /\ clock = 0
    /\ mainPc = "none"
    /\ schedAlive = FALSE
    /\ nextDue = 0
    /\ runState = [r \in RunIds |-> "none"]
    /\ runBy = [r \in RunIds |-> "none"]
    /\ runOn = [r \in RunIds |-> 0]
    /\ reloadInflight = 0
    /\ errorLog = 0
    /\ served = 0

Readers == 1 .. NumReaders

\* No image provider is being reloaded or read (the other specifications
\* leave these alone).
NoSnapshotActivity ==
    /\ sheet_version = 1
    /\ constructed = TRUE
    /\ reloadPc = "idle"
    /\ loaded_mapping = EmptyMapping
    /\ lastReload = "none"
    /\ readerPc = [r \in Readers |-> "idle"]
    /\ readerDoi = [r \in Readers |-> 0]
    /\ readerRef = [r \in Readers |-> EmptyMapping]
    /\ readerResult = [r \in Readers |-> 0]

ListIds == 1 .. NumLists
ArticleIds == 1 .. NumArticles
NoArticleEvents == [l \in ListIds |-> [a \in ArticleIds |-> [last |-> "none", adds |-> 0]]]
NoTimestampEvents == [l \in ListIds |-> [latest |-> 0, in_order |-> TRUE]]

Loggers == 1 .. NumLoggers
Records == 1 .. MaxRecords

\* The handlers of the logging module: a StreamHandler, a handler that is
\* not a StreamHandler, and the QueueHandler made for the i-th logger.
StreamHandler == [kind |-> "StreamHandler", id |-> 0]
OtherHandler == [kind |-> "Handler", id |-> 0]
QueueHandler(i) == [kind |-> "QueueHandler", id |-> i]
\* The handler lists a logger can have when the context is entered.
HandlerLists ==
    { << >>, << StreamHandler >>, << OtherHandler >>,
      << OtherHandler, StreamHandler >>, << StreamHandler, OtherHandler >> }

\* threaded_logging is not in use (the other specifications leave these
\* alone).
NoLogging ==
    /\ logPc = "none"
    /\ loggerHandlers = [l \in Loggers |-> << >>]
    /\ handlersAtEntry = [l \in Loggers |-> << >>]
    /\ original_handlers_list = << >>
    /\ queue_handlers = << >>
    /\ logging_queue = << >>
    /\ listenerState = "none"
    /\ listenerHandlers = << >>
    /\ recordLogger = [r \in Records |-> 0]
    /\ streamDeliveries = [r \in Records |-> 0]
    /\ handled = 0
    /\ bodyOutcome = "none"

\* No recommendation is being asked for (the other specifications leave
\* these alone).
NoPagination == [page |-> 1, items_per_page |-> 0]
NoRecommendationRequest ==
    /\ recPc = "none"
    /\ article_dois = << >>
    /\ max_recommendations = 0
    /\ single_article_recommendation_provider = FALSE
    /\ recVia = "none"
    /\ opensearch_doc = "unread"
    /\ hits = << >>
    /\ article_recommendation_list = << >>
    /\ pagination_parameters = NoPagination
    /\ article_recommendation_with_article_meta = << >>
    /\ item_count = 0

\* No request is at the redirect middleware (the other specifications leave
\* these alone).
NoRedirectResponse == [status_code |-> "none", url |-> << >>]
NoMiddlewareRequest ==
    /\ redirPc = "none"
    /\ first_request_query = << >>
    /\ request_query = << >>
    /\ redirect_response = NoRedirectResponse
    /\ app_query = {}
    /\ redirects = 0

NoLaterModels ==
    /\ NoLogging
    /\ NoRecommendationRequest
    /\ NoMiddlewareRequest

\* No lists model is being built (the other specifications leave these
\* alone).
NoListsModel ==
    /\ listsPc = "none"
    /\ eventsFolded = 0
    /\ sciety_list_meta_by_list_id = << >>
    /\ owner_meta_by_list_id = [l \in ListIds |-> FALSE]
    /\ article_ids_by_list_id = [l \in ListIds |-> {}]
    /\ last_updated_by_list_id = [l \in ListIds |-> 0]
    /\ summaries = << >>
    /\ articleEvents = NoArticleEvents
    /\ timestampEvents = NoTimestampEvents

\* ---------------------------------------------------------------- cache
\* ScietyEventProvider.__init__: no cache supplied means the Dummy variant.
ScietyEventProvider_init_always_dummy(cache) == DummySingleObjectCache
ScietyEventProvider_init_always_in_memory(cache) == InMemorySingleObjectCache
ScietyEventProvider_init(cache) ==
    IF cache = NoCache THEN DummySingleObjectCache ELSE cache

\* create_app: the provider is built with an in-memory cache of one hour.
create_app_query_results_cache == InMemorySingleObjectCache

\* spec.md 4.5: an entry exists and now - loaded_at < max_age.
IsFresh_always(e, t) == e.present
IsFresh(e, t) == e.present /\ t - e.loaded_at < max_age_in_seconds

\* The value load_fn produces: the query result of that invocation.  Each
\* invocation reads BigQuery anew, so results of different invocations are
\* kept apart by the invocation id.
load_fn_value(id) == id

InitCache ==
    /\ now = 0
    /\ suppliedCache \in {create_app_query_results_cache, NoCache}
    /\ query_results_cache = ScietyEventProvider_init(suppliedCache)
    /\ entry = NoEntry
    /\ inflight = 0
    /\ loadResult = [i \in LoadIds |-> NoOutcome]
    /\ loadCount = 0
    /\ pc = [c \in Callers |-> "idle"]
    /\ loadOf = [c \in Callers |-> 0]
    /\ via = [c \in Callers |-> "none"]
    /\ entryAtCall = [c \in Callers |-> NoEntry]
    /\ result = [c \in Callers |-> NoOutcome]
    /\ NoPageRequest
    /\ NoScheduler
    /\ NoSnapshotActivity
    /\ NoListsModel
    /\ NoLaterModels

\* get_or_load, fresh entry: return its value without invoking load_fn.
GetOrLoadHit(c) ==
    /\ pc[c] = "idle"
    /\ query_results_cache = InMemorySingleObjectCache
    /\ IsFresh(entry, now)
    /\ pc' = [pc EXCEPT ![c] = "returned"]
    /\ via' = [via EXCEPT ![c] = "hit"]
    /\ entryAtCall' = [entryAtCall EXCEPT ![c] = entry]
    /\ result' = [result EXCEPT ![c] = Value(entry.value)]
    /\ UNCHANGED << now, suppliedCache, query_results_cache, entry, inflight,
                    loadResult, loadCount, loadOf >>
    /\ UNCHANGED notCacheVars

\* get_or_load, no fresh entry and no load in flight: this caller invokes load_fn.
GetOrLoadStartLoad(c) ==
    /\ pc[c] = "idle"
    /\ query_results_cache = InMemorySingleObjectCache
    /\ ~IsFresh(entry, now)
    /\ inflight = 0
    /\ loadCount < MaxLoads
    /\ loadCount' = loadCount + 1
    /\ inflight' = loadCount + 1
    /\ loadResult' = [loadResult EXCEPT ![loadCount + 1] = Running]
    /\ loadOf' = [loadOf EXCEPT ![c] = loadCount + 1]
    /\ pc' = [pc EXCEPT ![c] = "loading"]
    /\ via' = [via EXCEPT ![c] = "load"]
    /\ entryAtCall' = [entryAtCall EXCEPT ![c] = entry]
    /\ UNCHANGED << now, suppliedCache, query_results_cache, entry, result >>
    /\ UNCHANGED notCacheVars

\* get_or_load, no fresh entry while a load is in flight: attach to that load.
GetOrLoadWait(c) ==
    /\ pc[c] = "idle"
    /\ query_results_cache = InMemorySingleObjectCache
    /\ ~IsFresh(entry, now)
    /\ inflight # 0
    /\ loadOf' = [loadOf EXCEPT ![c] = inflight]
    /\ pc' = [pc EXCEPT ![c] = "waiting"]
    /\ via' = [via EXCEPT ![c] = "wait"]
    /\ entryAtCall' = [entryAtCall EXCEPT ![c] = entry]
    /\ UNCHANGED << now, suppliedCache, query_results_cache, entry, inflight,
                    loadResult, loadCount, result >>
    /\ UNCHANGED notCacheVars

\* Dummy variant: every call invokes load_fn, nothing is coordinated or kept.
DummyGetOrLoad(c) ==
    /\ pc[c] = "idle"
    /\ query_results_cache = DummySingleObjectCache
    /\ loadCount < MaxLoads
    /\ loadCount' = loadCount + 1
    /\ loadResult' = [loadResult EXCEPT ![loadCount + 1] = Running]
    /\ loadOf' = [loadOf EXCEPT ![c] = loadCount + 1]
    /\ pc' = [pc EXCEPT ![c] = "loading"]
    /\ via' = [via EXCEPT ![c] = "load"]
    /\ entryAtCall' = [entryAtCall EXCEPT ![c] = entry]
    /\ UNCHANGED << now, suppliedCache, query_results_cache, entry, inflight, result >>
    /\ UNCHANGED notCacheVars

\* ScietyEventProvider.get_sciety_event_dict_list: one call of get_or_load
\* on the provider's cache with load_fn = _load_query_results_from_bq.
get_sciety_event_dict_list(c) ==
    \/ GetOrLoadHit(c)
    \/ GetOrLoadStartLoad(c)
    \/ GetOrLoadWait(c)
    \/ DummyGetOrLoad(c)

\* The entry after a successful load: new value and fresh timestamp, wholesale.
EntryAfterSuccess(old, v, t) == [present |-> TRUE, value |-> v, loaded_at |-> t]

\* The entry after a failed load: the previous entry (if any) is retained.
EntryAfterFailure_dropped(old) == NoEntry
EntryAfterFailure(old) == old

\* spec.md 3: the in-flight state exists only for the duration of a load;
\* it is cleared when the load ends, by success or by failure.
inflight_after_load_kept(current) == current
inflight_after_load(current) == 0

\* load_fn returns: the entry is replaced, the in-flight state is cleared and
\* the loader returns the value.
LoadSucceeds(c) ==
    /\ pc[c] = "loading"
    /\ loadResult' = [loadResult EXCEPT ![loadOf[c]] = Value(load_fn_value(loadOf[c]))]
    /\ IF query_results_cache = InMemorySingleObjectCache
       THEN /\ entry' = EntryAfterSuccess(entry, load_fn_value(loadOf[c]), now)
            /\ inflight' = inflight_after_load(inflight)
       ELSE UNCHANGED << entry, inflight >>
    /\ pc' = [pc EXCEPT ![c] = "returned"]
    /\ result' = [result EXCEPT ![c] = Value(load_fn_value(loadOf[c]))]
    /\ UNCHANGED << now, suppliedCache, query_results_cache, loadCount, loadOf, via, entryAtCall >>
    /\ UNCHANGED notCacheVars

\* load_fn raises: the entry is retained, the in-flight state is cleared and
\* the failure goes to the loader.
LoadFails(c) ==
    /\ pc[c] = "loading"
    /\ loadResult' = [loadResult EXCEPT ![loadOf[c]] = Failure]
    /\ IF query_results_cache = InMemorySingleObjectCache
       THEN /\ entry' = EntryAfterFailure(entry)
            /\ inflight' = inflight_after_load(inflight)
       ELSE UNCHANGED << entry, inflight >>
    /\ pc' = [pc EXCEPT ![c] = "returned"]
    /\ result' = [result EXCEPT ![c] = Failure]
    /\ UNCHANGED << now, suppliedCache, query_results_cache, loadCount, loadOf, via, entryAtCall >>
    /\ UNCHANGED notCacheVars

\* A caller blocked on a load that has ended receives that load's outcome.
WaiterReturns(c) ==
    /\ pc[c] = "waiting"
    /\ loadResult[loadOf[c]] # Running
    /\ pc' = [pc EXCEPT ![c] = "returned"]
    /\ result' = [result EXCEPT ![c] = loadResult[loadOf[c]]]
    /\ UNCHANGED << now, suppliedCache, query_results_cache, entry, inflight,
                    loadResult, loadCount, loadOf, via, entryAtCall >>
    /\ UNCHANGED notCacheVars

\* The caller (a request handler) finishes; a later request may call again.
CallerDone(c) ==
    /\ pc[c] = "returned"
    /\ pc' = [pc EXCEPT ![c] = "idle"]
    /\ loadOf' = [loadOf EXCEPT ![c] = 0]
    /\ via' = [via EXCEPT ![c] = "none"]
    /\ entryAtCall' = [entryAtCall EXCEPT ![c] = NoEntry]
    /\ result' = [result EXCEPT ![c] = NoOutcome]
    /\ UNCHANGED << now, suppliedCache, query_results_cache, entry, inflight,
                    loadResult, loadCount >>
    /\ UNCHANGED notCacheVars

\* Time passes.
Tick ==
    /\ now < MaxTime
    /\ now' = now + TickSeconds
    /\ UNCHANGED << suppliedCache, query_results_cache, entry, inflight,
                    loadResult, loadCount, pc, loadOf, via, entryAtCall, result >>
    /\ UNCHANGED notCacheVars

NextCache ==
    \/ \E c \in Callers : get_sciety_event_dict_list(c)
    \/ \E c \in Callers : LoadSucceeds(c)
    \/ \E c \in Callers : LoadFails(c)
    \/ \E c \in Callers : WaiterReturns(c)
    \/ \E c \in Callers : CallerDone(c)
    \/ Tick

SpecCache == InitCache /\ [][NextCache]_vars

\* load_fn terminates, and a blocked caller whose load has ended goes on.
CacheFairness ==
    /\ \A c \in Callers : WF_vars(LoadSucceeds(c) \/ LoadFails(c))
    /\ \A c \in Callers : WF_vars(WaiterReturns(c))
SpecCacheFair == SpecCache /\ CacheFairness


\* ------------------------------------------------------ page request steps
\* No cache call is under way (the page specification leaves the cache alone).
NoCacheActivity ==
    /\ now = 0
    /\ suppliedCache = create_app_query_results_cache
    /\ query_results_cache = ScietyEventProvider_init(suppliedCache)
    /\ entry = NoEntry
    /\ inflight = 0
    /\ loadResult = [i \in LoadIds |-> NoOutcome]
    /\ loadCount = 0
    /\ pc = [c \in Callers |-> "idle"]
    /\ loadOf = [c \in Callers |-> 0]
    /\ via = [c \in Callers |-> "none"]
    /\ entryAtCall = [c \in Callers |-> NoEntry]
    /\ result = [c \in Callers |-> NoOutcome]

\* A request for the search route arrives: what the provider would return,
\* the pagination parameters and the loaded image mapping.  What the metadata
\* provider knows and the log level are settled where the request first
\* depends on them.
InitPage ==
    /\ NoCacheActivity
    /\ NoScheduler
    /\ NoSnapshotActivity
    /\ NoListsModel
    /\ NoLaterModels
    /\ search_result \in SeqsUpTo(Dois, MaxLen)
    /\ search_result_iterator = EmptyIterator
    /\ page \in 1 .. MaxPage
    /\ items_per_page \in -1 .. MaxItemsPerPage
    /\ debug = FALSE
    /\ image_url_by_doi \in ImageMappings
    /\ crossref_known = {}
    /\ rpc = "request"
    /\ statsOut = << >>
    /\ metaRequest = << >>
    /\ metaCalls = 0
    /\ metaError = "none"
    /\ withMeta = << >>
    /\ withImage = << >>
    /\ first_item = {}
    /\ aggResult = NoResult
    /\ search_results = << >>
    /\ response = NoResponse
    /\ aggregator_iterable = NoIterable
    /\ producedTimes = << >>
    /\ upstreamError = "none"
    /\ upstreamPulls = 0
    /\ paginationError = "none"

\* search, up to the call of the aggregator: status 200, no error message,
\* the iterator over the provider's result.
Search ==
    /\ rpc = "request"
    /\ search_result_iterator' = ProviderIterator(search_result)
    /\ response' = [NoResponse EXCEPT !.status_code = OkStatus]
    /\ rpc' = "pull"
    /\ UNCHANGED << search_result, page, items_per_page, debug, image_url_by_doi,
                    statsOut, metaRequest, metaCalls, metaError, crossref_known,
                    withMeta, withImage, first_item, aggResult, search_results >>
    /\ UNCHANGED << aggregator_iterable, producedTimes, upstreamError, upstreamPulls >>
    /\ UNCHANGED paginationError
    /\ UNCHANGED notPageVars

\* One item is pulled through the preprint filter and the stats stage.
PullUpstream ==
    /\ rpc = "pull"
    /\ WantsMore
    /\ NextPreprintPos(search_result_iterator) # 0
    /\ LET at == NextPreprintPos(search_result_iterator)
       IN  /\ search_result_iterator' = [search_result_iterator EXCEPT !.pos = at]
           /\ statsOut' = Append(statsOut,
                  with_article_stats(ArticleMention(search_result_iterator.items[at])))
    /\ UNCHANGED << search_result, page, items_per_page, debug, image_url_by_doi, rpc,
                    metaRequest, metaCalls, metaError, crossref_known,
                    withMeta, withImage, first_item, aggResult, search_results, response >>
    /\ upstreamPulls' = upstreamPulls + 1
    /\ UNCHANGED << aggregator_iterable, producedTimes, upstreamError >>
    /\ UNCHANGED paginationError
    /\ UNCHANGED notPageVars

\* The pull finds no further preprint: the iterator is used up.
UpstreamExhausted ==
    /\ rpc = "pull"
    /\ WantsMore
    /\ NextPreprintPos(search_result_iterator) = 0
    /\ search_result_iterator' =
          [search_result_iterator EXCEPT !.pos = Len(search_result_iterator.items)]
    /\ rpc' = "meta"
    /\ crossref_known' \in CrossrefKnownSets
    /\ UNCHANGED << search_result, page, items_per_page, debug, image_url_by_doi,
                    statsOut, metaRequest, metaCalls, metaError,
                    withMeta, withImage, first_item, aggResult, search_results, response >>
    /\ upstreamPulls' = upstreamPulls + 1
    /\ UNCHANGED << aggregator_iterable, producedTimes, upstreamError >>
    /\ UNCHANGED paginationError
    /\ UNCHANGED notPageVars

\* The pull fails: the provider's iterator raises instead of yielding.
UpstreamFails ==
    /\ rpc = "pull"
    /\ WantsMore
    /\ \E err \in ProviderErrors :
          /\ upstreamError' = err
          /\ aggResult' = aggregator_on_upstream_error(err)
    /\ upstreamPulls' = upstreamPulls + 1
    /\ rpc' = "raised"
    /\ UNCHANGED << search_result, search_result_iterator, page, items_per_page, debug,
                    image_url_by_doi, statsOut, metaRequest, metaCalls, metaError,
                    crossref_known, withMeta, withImage, first_item, search_results,
                    response, aggregator_iterable, producedTimes >>
    /\ UNCHANGED paginationError
    /\ UNCHANGED notPageVars

\* The windower has yielded items_per_page items and ends without a pull.
PageComplete ==
    /\ rpc = "pull"
    /\ ~WantsMore
    /\ rpc' = "meta"
    /\ crossref_known' \in CrossrefKnownSets
    /\ UNCHANGED << search_result, search_result_iterator, page, items_per_page, debug,
                    image_url_by_doi, statsOut, metaRequest, metaCalls, metaError,
                    withMeta, withImage, first_item, aggResult,
                    search_results, response >>
    /\ UNCHANGED << aggregator_iterable, producedTimes, upstreamError, upstreamPulls >>
    /\ UNCHANGED paginationError
    /\ UNCHANGED notPageVars

\* The records after the metadata stage and, when the windower wraps the
\* metadata stage, after the windower.
AfterMeta(records) ==
    IF WindowBeforeMeta THEN records
    ELSE get_page_iterable(records, AggPage, AggItemsPerPage)

\* The metadata stage sends the buffered keys in one request and is answered.
MetadataAnswers ==
    /\ rpc = "meta"
    /\ HasStage("meta")
    /\ MetaInput # << >>
    /\ metaRequest' = DoisOf(MetaInput)
    /\ metaCalls' = metaCalls + 1
    /\ withMeta' = AfterMeta(with_article_meta(MetaInput, crossref_known))
    /\ rpc' = "image"
    /\ UNCHANGED << search_result, search_result_iterator, page, items_per_page, debug,
                    image_url_by_doi, statsOut, metaError, crossref_known, withImage,
                    first_item, aggResult, search_results, response >>
    /\ UNCHANGED << aggregator_iterable, producedTimes, upstreamError, upstreamPulls >>
    /\ UNCHANGED paginationError
    /\ UNCHANGED notPageVars

\* Nothing to ask the metadata provider about.
NoMetadataRequest ==
    /\ rpc = "meta"
    /\ ~HasStage("meta") \/ MetaInput = << >>
    /\ withMeta' = MetaInput
    /\ rpc' = "image"
    /\ UNCHANGED << search_result, search_result_iterator, page, items_per_page, debug,
                    image_url_by_doi, statsOut, metaRequest, metaCalls, metaError,
                    crossref_known, withImage, first_item, aggResult, search_results,
                    response >>
    /\ UNCHANGED << aggregator_iterable, producedTimes, upstreamError, upstreamPulls >>
    /\ UNCHANGED paginationError
    /\ UNCHANGED notPageVars

\* The batched request fails with a transport error.
MetadataFails ==
    /\ rpc = "meta"
    /\ HasStage("meta")
    /\ MetaInput # << >>
    /\ \E err \in ProviderErrors :
          /\ metaError' = err
          /\ aggResult' = aggregator_on_meta_error(err, MetaInput)
    /\ metaRequest' = DoisOf(MetaInput)
    /\ metaCalls' = metaCalls + 1
    /\ withMeta' = AfterMeta(aggResult'.items)
    /\ rpc' = IF aggResult'.raised THEN "raised" ELSE "image"
    /\ UNCHANGED << search_result, search_result_iterator, page, items_per_page, debug,
                    image_url_by_doi, statsOut, crossref_known, withImage, first_item,
                    search_results, response >>
    /\ UNCHANGED << aggregator_iterable, producedTimes, upstreamError, upstreamPulls >>
    /\ UNCHANGED paginationError
    /\ UNCHANGED notPageVars

\* The image stage wraps the metadata stage: its output is what the
\* aggregator iterates, nothing of it produced yet.
ImageStage ==
    /\ rpc = "image"
    /\ withImage' = iter_article_mention_with_article_image_url(image_url_by_doi, withMeta)
    /\ aggregator_iterable' = PlainIterable(withImage')
    /\ producedTimes' = [i \in 1 .. Len(withImage') |-> 0]
    /\ debug' \in BOOLEAN
    /\ rpc' = IF debug' THEN "peek" ELSE "yield"
    /\ UNCHANGED << search_result, search_result_iterator, page, items_per_page,
                    image_url_by_doi, statsOut, metaRequest, metaCalls, metaError,
                    crossref_known, withMeta, first_item, aggResult, search_results,
                    response, upstreamError, upstreamPulls >>
    /\ UNCHANGED paginationError
    /\ UNCHANGED notPageVars

\* if LOGGER.isEnabledFor(logging.DEBUG): the look-ahead of one item, logged.
LookAheadOne ==
    /\ rpc = "peek"
    /\ LET looked == async_get_iterable_and_look_ahead_one(aggregator_iterable)
       IN  /\ aggregator_iterable' = iterable_after_look_ahead(looked)
           /\ first_item' = looked.first_item
           /\ producedTimes' = [i \in 1 .. Len(producedTimes) |->
                  producedTimes[i] + (IF i \in looked.pulled THEN 1 ELSE 0)]
    /\ rpc' = "yield"
    /\ UNCHANGED << search_result, search_result_iterator, page, items_per_page, debug,
                    image_url_by_doi, statsOut, metaRequest, metaCalls, metaError,
                    crossref_known, withMeta, withImage, aggResult, search_results,
                    response, upstreamError, upstreamPulls >>
    /\ UNCHANGED paginationError
    /\ UNCHANGED notPageVars

\* async for item in iterable: yield item, and list(...) in the route: the
\* page is materialized.
Materialize ==
    /\ rpc = "yield"
    /\ aggResult' = [raised |-> FALSE, error |-> "none", items |-> Drain(aggregator_iterable)]
    /\ search_results' = aggResult'.items
    /\ producedTimes' = [i \in 1 .. Len(producedTimes) |->
           producedTimes[i] + (IF i \in PulledByDrain(aggregator_iterable) THEN 1 ELSE 0)]
    /\ aggregator_iterable' =
          [buffer |-> << >>,
           it |-> [aggregator_iterable.it EXCEPT !.pos = Len(aggregator_iterable.it.items)]]
    /\ rpc' = "listed"
    /\ UNCHANGED << search_result, search_result_iterator, page, items_per_page, debug,
                    image_url_by_doi, statsOut, metaRequest, metaCalls, metaError,
                    crossref_known, withMeta, withImage, first_item, response,
                    upstreamError, upstreamPulls >>
    /\ UNCHANGED paginationError
    /\ UNCHANGED notPageVars

\* except requests.exceptions.HTTPError: error message, upstream status, an
\* empty result list and an empty iterator.
HandleHTTPError ==
    /\ rpc = "raised"
    /\ aggResult.error = "HTTPError"
    /\ response' = [response EXCEPT !.error_message = TRUE, !.status_code = UpstreamStatus]
    /\ search_results' = << >>
    /\ search_result_iterator' = route_iterator_after_http_error(search_result_iterator)
    /\ rpc' = "listed"
    /\ UNCHANGED << search_result, page, items_per_page, debug, image_url_by_doi,
                    statsOut, metaRequest, metaCalls, metaError, crossref_known,
                    withMeta, withImage, first_item, aggResult >>
    /\ UNCHANGED << aggregator_iterable, producedTimes, upstreamError, upstreamPulls >>
    /\ UNCHANGED paginationError
    /\ UNCHANGED notPageVars

\* Any other error leaves the route; the 500 handler answers.
UnhandledError ==
    /\ rpc = "raised"
    /\ aggResult.error # "HTTPError"
    /\ response' = [response EXCEPT !.sent = TRUE, !.error_message = TRUE,
                                    !.status_code = "500"]
    /\ rpc' = "failed"
    /\ UNCHANGED << search_result, search_result_iterator, page, items_per_page, debug,
                    image_url_by_doi, statsOut, metaRequest, metaCalls, metaError,
                    crossref_known, withMeta, withImage, first_item, aggResult,
                    search_results >>
    /\ UNCHANGED << aggregator_iterable, producedTimes, upstreamError, upstreamPulls >>
    /\ UNCHANGED paginationError
    /\ UNCHANGED notPageVars

\* Look-ahead of one item on an iterator: whether an item is there, and the
\* iterator after the pull.
look_ahead_one(it) ==
    [found |-> it.pos < Len(it.items),
     it |-> [it EXCEPT !.pos = Min(it.pos + 1, Len(it.items))]]

\* The pagination state is computed from the remaining iterator of the route
\* and the response is rendered.
PaginationState ==
    /\ rpc = "listed"
    /\ LET peek == look_ahead_one(search_result_iterator)
       IN  /\ search_result_iterator' = peek.it
           /\ response' = [response EXCEPT !.sent = TRUE,
                                           !.is_empty = (search_results = << >>),
                                           !.has_previous = (page > 1),
                                           !.has_next = peek.found]
    /\ upstreamPulls' = upstreamPulls +
          (IF search_result_iterator.source = "provider" THEN 1 ELSE 0)
    /\ rpc' = "done"
    /\ UNCHANGED << search_result, page, items_per_page, debug, image_url_by_doi,
                    statsOut, metaRequest, metaCalls, metaError, crossref_known,
                    withMeta, withImage, first_item, aggResult, search_results >>
    /\ UNCHANGED << aggregator_iterable, producedTimes, upstreamError >>
    /\ UNCHANGED paginationError
    /\ UNCHANGED notPageVars

\* The look-ahead of the pagination state asks the provider's iterator for
\* an item and the iterator raises: the call is outside the route's try, so
\* the error leaves the route and the 500 handler answers.
PaginationStateFails ==
    /\ rpc = "listed"
    /\ search_result_iterator.source = "provider"
    /\ search_result_iterator.pos < Len(search_result_iterator.items)
    /\ \E err \in ProviderErrors : paginationError' = err
    /\ upstreamPulls' = upstreamPulls + 1
    /\ response' = [response EXCEPT !.sent = TRUE, !.error_message = TRUE,
                                    !.status_code = "500"]
    /\ rpc' = "failed"
    /\ UNCHANGED << search_result, search_result_iterator, page, items_per_page, debug,
                    image_url_by_doi, statsOut, metaRequest, metaCalls, metaError,
                    crossref_known, withMeta, withImage, first_item, aggResult,
                    search_results, aggregator_iterable, producedTimes, upstreamError >>
    /\ UNCHANGED notPageVars

NextPage ==
    \/ Search
    \/ PullUpstream
    \/ UpstreamExhausted
    \/ UpstreamFails
    \/ PageComplete
    \/ MetadataAnswers
    \/ NoMetadataRequest
    \/ MetadataFails
    \/ ImageStage
    \/ LookAheadOne
    \/ Materialize
    \/ HandleHTTPError
    \/ UnhandledError
    \/ PaginationState
    \/ PaginationStateFails

SpecPage == InitPage /\ [][NextPage]_vars

\* ------------------------------------------------------- cache properties
\* A call of get_or_load by caller c begins in this step.
CallBegins(c) == pc[c] = "idle" /\ pc'[c] # "idle"

LoadsInFlight == {i \in LoadIds : loadResult[i] = Running}

\* C1: single-flight load.  With the in-memory cache supplied to the
\* provider, load_fn never has two invocations in flight; every caller
\* blocked on a running load is attached to the one load in flight, which
\* exactly one caller runs; and a loader and the callers that waited on its
\* load return the same outcome.
C1_SingleFlight ==
    suppliedCache = InMemorySingleObjectCache =>
        /\ Cardinality(LoadsInFlight) <= 1
        /\ Cardinality({c \in Callers : pc[c] = "loading"}) <= 1
        /\ \A d \in Callers :
              (pc[d] = "waiting" /\ loadResult[loadOf[d]] = Running) =>
                  /\ loadOf[d] = inflight
                  /\ Cardinality({c \in Callers :
                                    pc[c] = "loading" /\ loadOf[c] = loadOf[d]}) = 1
        /\ \A c, d \in Callers :
              (/\ pc[c] = "returned" /\ pc[d] = "returned"
               /\ via[c] = "load" /\ via[d] = "wait"
               /\ loadOf[c] = loadOf[d]) => result[c] = result[d]

\* Two callers met on the cold cache: one load served both with one value.
C1_Witness ==
    /\ suppliedCache = InMemorySingleObjectCache
    /\ loadCount = 1
    /\ \E c, d \in Callers :
          /\ c # d
          /\ pc[c] = "returned" /\ via[c] = "load"
          /\ pc[d] = "returned" /\ via[d] = "wait"
          /\ ~entryAtCall[c].present /\ ~entryAtCall[d].present
          /\ loadOf[c] = loadOf[d]
          /\ result[c].kind = "value" /\ result[d] = result[c]

\* C2: TTL freshness.  A call made while the entry is younger than max_age
\* returns the entry's value, invokes no load and leaves the entry alone; a
\* call made when the entry is older than max_age with no load in flight
\* invokes load_fn.
C2_TTLFreshness ==
    [][\A c \in Callers :
          (/\ suppliedCache = InMemorySingleObjectCache
           /\ CallBegins(c)
           /\ entry.present) =>
              /\ (now - entry.loaded_at < max_age_in_seconds) =>
                    /\ pc'[c] = "returned"
                    /\ result'[c] = Value(entry.value)
                    /\ loadCount' = loadCount
                    /\ loadResult' = loadResult
                    /\ entry' = entry
              /\ (now - entry.loaded_at > max_age_in_seconds /\ inflight = 0) =>
                    /\ pc'[c] = "loading"
                    /\ loadCount' = loadCount + 1
                    /\ loadResult'[loadCount + 1] = Running]_vars

\* One caller was answered from the entry after time had passed, and later,
\* past max_age, another caller is running the reload.
C2_Witness ==
    /\ suppliedCache = InMemorySingleObjectCache
    /\ entry.present
    /\ \E c, d \in Callers :
          /\ pc[c] = "returned" /\ via[c] = "hit"
          /\ entryAtCall[c] = entry /\ result[c] = Value(entry.value)
          /\ pc[d] = "loading" /\ entryAtCall[d] = entry
          /\ now - entry.loaded_at > max_age_in_seconds

\* C3: cache load failure.  When a load ends in failure the cache entry is
\* what it was when the loader called (absent if it was absent), the loader
\* returns the failure, and a caller that waited on that load returns the
\* failure as well.
C3_LoadFailure ==
    [][/\ \A c \in Callers :
             (/\ pc[c] = "loading"
              /\ loadResult[loadOf[c]] = Running
              /\ loadResult'[loadOf[c]] = Failure) =>
                 /\ entry' = entryAtCall[c]
                 /\ pc'[c] = "returned"
                 /\ result'[c] = Failure
       /\ \A d \in Callers :
             (/\ pc[d] = "waiting" /\ pc'[d] # "waiting"
              /\ loadResult[loadOf[d]] = Failure) =>
                 /\ pc'[d] = "returned"
                 /\ result'[d] = Failure
                 /\ entry' = entry]_vars

\* A reload failed with a caller waiting on it: both hold the failure and the
\* earlier entry is still in place.
C3_Witness ==
    /\ entry.present
    /\ \E c, d \in Callers :
          /\ c # d
          /\ pc[c] = "returned" /\ via[c] = "load" /\ result[c] = Failure
          /\ pc[d] = "returned" /\ via[d] = "wait" /\ result[d] = Failure
          /\ loadOf[c] = loadOf[d]
          /\ entry = entryAtCall[c]

\* -------------------------------------------------------- page properties
\* The sequence the aggregator is given: the preprint mentions of the result.
UpstreamSequence == iter_preprint_article_mention(search_result)

\* The 1-based positions (page-1)*k+1 .. min(page*k, len(S)) of S.
ExpectedWindow(S, pg, k) == SubSeq(S, (pg - 1) * k + 1, Min(pg * k, Len(S)))

\* The request was served without an error.
ServedOk == rpc \in {"listed", "done"} /\ ~aggResult.raised /\ ~response.error_message

\* The windower has finished.
Windowed ==
    /\ rpc \in {"meta", "image", "peek", "yield", "raised", "listed", "done", "failed"}
    /\ upstreamError = "none"

\* C4: page window content.  For a positive items_per_page k the windowed
\* sequence, and the page the route lists, hold exactly the items of the
\* upstream sequence S at positions (page-1)*k+1 .. min(page*k, len(S)), in
\* order, which are min(k, max(0, len(S) - (page-1)*k)) items.
C4_PageWindowContent ==
    items_per_page > 0 =>
        LET S == UpstreamSequence
            k == items_per_page
            expected == ExpectedWindow(S, page, k)
        IN  /\ Windowed =>
                /\ DoisOf(MetaInput) = expected
                /\ Len(MetaInput) = Min(k, Max(0, Len(S) - (page - 1) * k))
            /\ ServedOk =>
                /\ DoisOf(search_results) = expected
                /\ Len(search_results) = Min(k, Max(0, Len(S) - (page - 1) * k))

\* A full second page was listed from a sequence that goes on after it.
C4_Witness ==
    /\ rpc = "done" /\ ServedOk
    /\ page = 2
    /\ items_per_page > 0
    /\ Len(search_results) = items_per_page
    /\ Len(UpstreamSequence) > page * items_per_page
    /\ DoisOf(search_results) = ExpectedWindow(UpstreamSequence, page, items_per_page)
    /\ search_results[1].article_doi # UpstreamSequence[1]

\* At least one item of the sequence shown to the user lies beyond the page.
ItemsBeyondPage ==
    /\ items_per_page > 0
    /\ Len(UpstreamSequence) > page * items_per_page

\* C5: pagination flags.  For a served page has_next is true exactly when an
\* item of the sequence shown to the user exists strictly beyond the page,
\* and has_previous is true exactly when page > 1.
C5_PaginationFlags ==
    (rpc = "done" /\ ServedOk) =>
        /\ response.has_next <=> ItemsBeyondPage
        /\ response.has_previous <=> (page > 1)

\* Items the pipeline has pulled so far: one per record the stats stage
\* received from the aggregator's input, and one if the look-ahead of the
\* pagination state found an item on the route's iterator.
PipelinePulls ==
    Len(statsOut) + (IF rpc = "done" /\ response.has_next THEN 1 ELSE 0)

C7_MetadataPageBound ==
    /\ metaCalls <= 1
    /\ metaCalls = 0 => metaRequest = << >>
    /\ metaCalls = 1 =>
          /\ Windowed
          /\ IsAbsent(items_per_page) => metaRequest = UpstreamSequence
          /\ items_per_page > 0 =>
                metaRequest = ExpectedWindow(UpstreamSequence, page, items_per_page)

\* The provider was asked while records lay before and after the window.
C7_Witness ==
    /\ metaCalls = 1
    /\ items_per_page > 0
    /\ page >= 2
    /\ Len(UpstreamSequence) > page * items_per_page
    /\ Len(metaRequest) = items_per_page

\* C8: stage cardinality and order.  Each of the stats, metadata and image
\* stages emits as many records as it received, with the article DOIs in the
\* order received.
C8_StageCardinalityAndOrder ==
    /\ DoisOf(statsOut) = SubSeq(UpstreamSequence, 1, Len(statsOut))
    /\ (rpc \in {"image", "peek", "yield", "listed", "done"} /\ ~aggResult.raised) =>
          /\ Len(withMeta) = Len(MetaInput)
          /\ DoisOf(withMeta) = DoisOf(MetaInput)
    /\ (rpc \in {"peek", "yield", "listed", "done"} /\ ~aggResult.raised) =>
          /\ Len(withImage) = Len(withMeta)
          /\ DoisOf(withImage) = DoisOf(withMeta)

\* A page of two records went through all stages; one record has an image
\* and no metadata, the other has metadata and no image.
C8_Witness ==
    /\ rpc = "done" /\ ServedOk
    /\ Len(withImage) >= 2
    /\ \E i, j \in 1 .. Len(withImage) :
          /\ withImage[i].article_images = {ArticleImages(withImage[i].article_doi)}
          /\ withImage[j].article_images = {ArticleImages(0)}
          /\ withImage[i].article_meta = {}
          /\ withImage[j].article_meta # {}

\* C9: whole-page failure.  Once the metadata provider has failed for the
\* page's request, the aggregator has ended with that error and has yielded
\* nothing, the route lists no record, and an answer, if sent, is an error
\* answer.
C9_WholePageFailure ==
    metaError # "none" =>
        /\ aggResult.raised
        /\ aggResult.error = metaError
        /\ aggResult.items = << >>
        /\ search_results = << >>
        /\ ~(rpc \in {"image", "peek", "yield"})
        /\ response.sent => response.error_message /\ response.status_code # OkStatus

\* The request for a page of two records failed and the route answered with
\* the error.
C9_Witness ==
    /\ metaError = "HTTPError"
    /\ Len(metaRequest) >= 2
    /\ rpc = "done"
    /\ response.sent /\ response.error_message
    /\ search_results = << >>

\* C10: per-item miss.  When the metadata provider answered the request, the
\* listed page holds every record of the window in order, a record whose key
\* the provider omitted has an empty metadata slot, every other record has
\* its metadata, and no error is raised or reported.
C10_PerItemMiss ==
    (rpc \in {"listed", "done"} /\ metaError = "none" /\ upstreamError = "none") =>
        /\ ~aggResult.raised
        /\ ~response.error_message
        /\ DoisOf(search_results) = DoisOf(MetaInput)
        /\ \A i \in 1 .. Len(search_results) :
              LET doi == search_results[i].article_doi
              IN  IF doi \in crossref_known
                  THEN search_results[i].article_meta = {ArticleMetaData(doi)}
                  ELSE search_results[i].article_meta = {}

\* The provider answered for one of two requested keys.
C10_Witness ==
    /\ rpc = "done"
    /\ metaCalls = 1 /\ metaError = "none"
    /\ Len(search_results) >= 2
    /\ \E i, j \in 1 .. Len(search_results) :
          /\ search_results[i].article_meta # {}
          /\ search_results[j].article_meta = {}
    /\ response.status_code = OkStatus

\* The DEBUG look-ahead has acted on the aggregator's iterable.
Peeked == debug /\ rpc \in {"yield", "listed", "done"} /\ ~aggResult.raised

\* C11: lookahead buffer.  The look-ahead on the iterable S returns the
\* first item of S (nothing when S is empty) and an iterable that yields
\* exactly the items of S in order, the peeked item first; no item of S is
\* produced twice, and once the iterable is consumed each was produced once.
C11_LookaheadBuffer ==
    Peeked =>
        /\ first_item = (IF withImage = << >> THEN {} ELSE {withImage[1]})
        /\ \A i \in 1 .. Len(producedTimes) : producedTimes[i] <= 1
        /\ rpc = "yield" =>
              /\ Drain(aggregator_iterable) = withImage
              /\ withImage # << >> => producedTimes[1] = 1
        /\ rpc \in {"listed", "done"} =>
              /\ search_results = withImage
              /\ \A i \in 1 .. Len(producedTimes) : producedTimes[i] = 1

\* With DEBUG logging on, a page of two records was listed after the first
\* had been peeked.
C11_Witness ==
    /\ debug
    /\ rpc = "done" /\ ServedOk
    /\ Len(search_results) >= 2
    /\ first_item = {search_results[1]}
    /\ search_results[1] # search_results[2]
    /\ producedTimes[1] = 1

\* The metadata stage, and the image stage, have emitted their records.
MetaEmitted == rpc \in {"image", "peek", "yield", "listed", "done"} /\ ~aggResult.raised
ImageEmitted == rpc \in {"peek", "yield", "listed", "done"} /\ ~aggResult.raised

\* C17: functional record update.  Every record a stage emits equals the
\* record it received in the article DOI and in every slot of another stage;
\* only the stage's own slot may differ.  The record it received is left as
\* it was: the stats stage's output keeps its empty metadata and image slots
\* after the later stages have run, the metadata stage's output keeps its
\* empty image slot.
C17_FunctionalRecordUpdate ==
    /\ \A i \in 1 .. Len(statsOut) :
          statsOut[i] = [ArticleMention(UpstreamSequence[i])
                            EXCEPT !.article_stats = statsOut[i].article_stats]
    /\ MetaEmitted =>
          \A i \in 1 .. Len(withMeta) :
              withMeta[i] = [MetaInput[i] EXCEPT !.article_meta = withMeta[i].article_meta]
    /\ ImageEmitted =>
          \A i \in 1 .. Len(withImage) :
              withImage[i] = [withMeta[i] EXCEPT !.article_images = withImage[i].article_images]

\* A listed record carries stats, metadata and an image, while the records
\* the earlier stages emitted for it still have their later slots empty.
C17_Witness ==
    /\ rpc = "done" /\ ServedOk
    /\ \E i \in 1 .. Len(withImage) :
          /\ withImage[i].article_stats # {}
          /\ withImage[i].article_meta # {}
          /\ withImage[i].article_images = {ArticleImages(withImage[i].article_doi)}
          /\ withMeta[i].article_images = {}
          /\ MetaInput[i].article_meta = {}

\* The request has come to its end: answered by the route or by the 500
\* handler.
RequestEnded == rpc \in {"done", "failed"}

\* C18: invalid pagination input rejected early.  A page request with an
\* items_per_page that is not positive ends in a ConfigurationError, and up
\* to its end no item was pulled from the search provider and the metadata
\* provider was not called.
C18_InvalidPaginationRejected ==
    (items_per_page < 0 /\ RequestEnded) =>
        /\ aggResult.raised
        /\ aggResult.error = "ConfigurationError"
        /\ upstreamPulls = 0
        /\ metaCalls = 0

\* C19: upstream errors propagate without retry.  When the search provider's
\* iterator or the metadata provider fails during a page request, the
\* aggregator ends with that same error and yields nothing, and from then on
\* the request makes no further call to the provider that failed.
C19_UpstreamErrorsNoRetry ==
    [][/\ upstreamError' # "none" =>
             /\ aggResult'.raised
             /\ aggResult'.error = upstreamError'
             /\ aggResult'.items = << >>
       /\ metaError' # "none" =>
             /\ aggResult'.raised
             /\ aggResult'.error = metaError'
             /\ aggResult'.items = << >>
       /\ upstreamError # "none" =>
             /\ upstreamPulls' = upstreamPulls
             /\ upstreamError' = upstreamError
       /\ metaError # "none" =>
             /\ metaCalls' = metaCalls
             /\ metaError' = metaError]_vars

\* The provider's iterator failed after it had yielded an item; the route
\* answered with the error and the iterator was not asked again.
C19_Witness ==
    /\ upstreamError = "HTTPError"
    /\ rpc = "done"
    /\ statsOut # << >>
    /\ upstreamPulls = Len(statsOut) + 1
    /\ aggResult.raised /\ aggResult.error = "HTTPError"
    /\ response.sent /\ response.error_message

\* C16: Dummy cache.  With no cache supplied to ScietyEventProvider, every
\* call of get_or_load invokes load_fn once and returns the outcome of that
\* very invocation; load_fn is invoked for no other reason, so n calls make
\* n invocations; and the cache never holds an entry.
C16_DummyCache ==
    [][suppliedCache = NoCache =>
          /\ entry' = NoEntry
          /\ inflight' = 0
          /\ \A c \in Callers :
                CallBegins(c) =>
                    /\ loadCount' = loadCount + 1
                    /\ loadOf'[c] = loadCount + 1
                    /\ loadResult'[loadCount + 1] = Running
                    /\ pc'[c] = "loading"
          /\ loadCount' # loadCount => \E c \in Callers : CallBegins(c)
          /\ \A c \in Callers :
                (pc[c] # "returned" /\ pc'[c] = "returned") =>
                    /\ result'[c] = loadResult'[loadOf[c]]
                    /\ result'[c].kind \in {"value", "failure"}
                    /\ \A d \in Callers : d # c => loadOf[d] # loadOf[c]]_vars

\* Without a cache three calls have made three invocations: one caller holds
\* the value of its own invocation while another's invocation is running.
C16_Witness ==
    /\ suppliedCache = NoCache
    /\ loadCount = 3
    /\ entry = NoEntry
    /\ \E c, d \in Callers :
          /\ c # d
          /\ pc[c] = "returned" /\ result[c] = Value(load_fn_value(loadOf[c]))
          /\ pc[d] = "loading" /\ loadOf[d] # loadOf[c]

\* ------------------------------------------- startup and background refresh
\* create_app calls check_or_reload_data itself, right after start.
create_app_preloads_never == FALSE
create_app_preloads == TRUE

\* AppUpdateManager.start (spec.md 4.6): the first run is due at once.
scheduler_first_due(t) == t

\* The scheduler after a run of its reload action failed: the failure is
\* logged and the scheduler goes on.
scheduler_alive_after_failure_stopped == FALSE
scheduler_alive_after_failure == TRUE

\* The reload action is a get_or_load with a forced miss (spec.md 4.6): a run
\* that finds a load in flight attaches to it instead of loading (4.5).
reload_attaches_never(load_in_flight) == FALSE
reload_attaches(load_in_flight) == load_in_flight # 0

FreeRun == CHOOSE r \in RunIds : runState[r] = "none" /\ \A q \in RunIds : q < r => runState[q] # "none"
RunsInProgress == {r \in RunIds : runState[r] \in {"loading", "waiting"}}
RunsLoading == {r \in RunIds : runState[r] = "loading"}
SchedulerRuns == {r \in RunIds : runBy[r] = "scheduler"}

InitScheduler ==
    /\ NoCacheActivity
    /\ NoPageRequest
    /\ NoSnapshotActivity
    /\ NoListsModel
    /\ NoLaterModels
    /\ clock = 0
    /\ mainPc = "init"
    /\ schedAlive = FALSE
    /\ nextDue = 0
    /\ runState = [r \in RunIds |-> "none"]
    /\ runBy = [r \in RunIds |-> "none"]
    /\ runOn = [r \in RunIds |-> 0]
    /\ reloadInflight = 0
    /\ errorLog = 0
    /\ served = 0

\* A run of the reload action begins for `by`.
BeginRun(by) ==
    /\ \E r \in RunIds : runState[r] = "none"
    /\ LET r == FreeRun
       IN  /\ runBy' = [runBy EXCEPT ![r] = by]
           /\ IF reload_attaches(reloadInflight)
              THEN /\ runState' = [runState EXCEPT ![r] = "waiting"]
                   /\ runOn' = [runOn EXCEPT ![r] = reloadInflight]
                   /\ UNCHANGED reloadInflight
              ELSE /\ runState' = [runState EXCEPT ![r] = "loading"]
                   /\ runOn' = [runOn EXCEPT ![r] = r]
                   /\ reloadInflight' = r

\* app_update_manager.start(update_interval_in_secs=...)
Start ==
    /\ mainPc = "init"
    /\ mainPc' = "started"
    /\ schedAlive' = TRUE
    /\ nextDue' = scheduler_first_due(clock)
    /\ UNCHANGED << clock, runState, runBy, runOn, reloadInflight, errorLog, served >>
    /\ UNCHANGED notSchedVars

\* LOGGER.info('Preloading data'); app_update_manager.check_or_reload_data()
Preload ==
    /\ mainPc = "started"
    /\ IF create_app_preloads
       THEN /\ BeginRun("preload")
            /\ mainPc' = "preloading"
       ELSE /\ mainPc' = "serving"
            /\ UNCHANGED << runState, runBy, runOn, reloadInflight >>
    /\ UNCHANGED << clock, schedAlive, nextDue, errorLog, served >>
    /\ UNCHANGED notSchedVars

\* The scheduler's timer is due: a run of the reload action begins, whether
\* or not an earlier run has ended, and the next run is due an interval on.
TimerFires ==
    /\ schedAlive
    /\ mainPc # "crashed"
    /\ clock >= nextDue
    /\ BeginRun("scheduler")
    /\ nextDue' = nextDue + update_interval_in_secs
    /\ UNCHANGED << clock, mainPc, schedAlive, errorLog, served >>
    /\ UNCHANGED notSchedVars

\* What the end of run r means to the one that began it: the scheduler logs
\* a failure and goes on; create_app returns the app after its preload, or
\* ends with the error it got.
RunEnds(r, outcome) ==
    /\ runState' = [runState EXCEPT ![r] = outcome]
    /\ IF runBy[r] = "scheduler"
       THEN /\ errorLog' = errorLog + (IF outcome = "failed" THEN 1 ELSE 0)
            /\ schedAlive' = (IF outcome = "failed" THEN scheduler_alive_after_failure
                              ELSE schedAlive)
            /\ UNCHANGED mainPc
       ELSE /\ mainPc' = (IF outcome = "failed" THEN "crashed" ELSE "serving")
            /\ UNCHANGED << errorLog, schedAlive >>
    /\ UNCHANGED << clock, nextDue, runBy, runOn, served >>
    /\ UNCHANGED notSchedVars

\* The load of a run ends, with the data or with a failure.
LoadEnds(r) ==
    /\ runState[r] = "loading"
    /\ mainPc # "crashed"
    /\ \E outcome \in {"ok", "failed"} : RunEnds(r, outcome)
    /\ reloadInflight' = (IF reloadInflight = r THEN 0 ELSE reloadInflight)

\* A run that attached to a load receives that load's outcome.
WaitEnds(r) ==
    /\ runState[r] = "waiting"
    /\ mainPc # "crashed"
    /\ runState[runOn[r]] \in {"ok", "failed"}
    /\ RunEnds(r, runState[runOn[r]])
    /\ UNCHANGED reloadInflight

\* A request is served by the app create_app returned.
ServeRequest ==
    /\ mainPc = "serving"
    /\ served < MaxRequests
    /\ served' = served + 1
    /\ UNCHANGED << clock, mainPc, schedAlive, nextDue, runState, runBy, runOn,
                    reloadInflight, errorLog >>
    /\ UNCHANGED notSchedVars

\* Time passes, unless a run of the live scheduler is due.
SchedTick ==
    /\ mainPc # "crashed"
    /\ clock < MaxTime
    /\ schedAlive => clock < nextDue
    /\ clock' = clock + TickSeconds
    /\ UNCHANGED << mainPc, schedAlive, nextDue, runState, runBy, runOn,
                    reloadInflight, errorLog, served >>
    /\ UNCHANGED notSchedVars

NextScheduler ==
    \/ Start
    \/ Preload
    \/ TimerFires
    \/ \E r \in RunIds : LoadEnds(r)
    \/ \E r \in RunIds : WaitEnds(r)
    \/ ServeRequest
    \/ SchedTick

SpecScheduler == InitScheduler /\ [][NextScheduler]_vars

\* ------------------------------------------------------ scheduler properties
\* A run of the reload action begins for the scheduler in this step.
SchedulerRunBegins == \E r \in RunIds : runBy[r] = "none" /\ runBy'[r] = "scheduler"

\* C12: scheduler start and periodicity.  Once started, the scheduler's
\* first run is due at once; while the scheduler lives no time passes over a
\* due run, and whenever a run begins the next is due exactly one interval
\* later; none of this depends on requests.  No request is served before a
\* run of the reload action has ended with the data loaded.
C12_SchedulerStartAndPeriodicity ==
    [][/\ (mainPc = "init" /\ mainPc' = "started") =>
             /\ schedAlive'
             /\ nextDue' = clock
       /\ (schedAlive /\ clock' > clock) => clock < nextDue
       /\ (schedAlive /\ nextDue' # nextDue) =>
             /\ SchedulerRunBegins
             /\ nextDue' = nextDue + update_interval_in_secs
       /\ SchedulerRunBegins => (clock >= nextDue /\ nextDue' # nextDue)
       /\ served' # served => schedAlive' = schedAlive /\ nextDue' = nextDue
       /\ served' > served => \E r \in RunIds : runState[r] = "ok"]_vars

\* No request has arrived, an interval has passed since the start, and the
\* scheduler's second run has begun after its first one ended.
C12_Witness ==
    /\ served = 0
    /\ mainPc = "serving"
    /\ clock >= update_interval_in_secs
    /\ Cardinality(SchedulerRuns) = 2
    /\ \E r \in SchedulerRuns : runState[r] = "ok"
    /\ \E r \in SchedulerRuns : runState[r] = "loading"

\* C13: the scheduler survives failures.  When a run of the scheduler's
\* reload action fails, the failure is logged and the scheduler lives on
\* with its next run due as before; the scheduler never stops, and after any
\* failure no time passes over a due run.
C13_SchedulerSurvivesFailures ==
    [][/\ \A r \in RunIds :
             (/\ runBy[r] = "scheduler"
              /\ runState[r] \in {"loading", "waiting"}
              /\ runState'[r] = "failed") =>
                 /\ errorLog' = errorLog + 1
                 /\ schedAlive'
                 /\ nextDue' = nextDue
       /\ schedAlive => schedAlive'
       /\ (errorLog > 0 /\ clock' > clock) => (schedAlive /\ clock < nextDue)
       /\ (errorLog > 0 /\ clock >= nextDue /\ mainPc # "crashed") =>
             (clock' = clock /\ (nextDue' # nextDue => SchedulerRunBegins))]_vars

\* The scheduler's first run failed and was logged; an interval later its
\* second run is under way.
C13_Witness ==
    /\ errorLog >= 1
    /\ schedAlive
    /\ clock >= update_interval_in_secs
    /\ \E r, q \in SchedulerRuns :
          /\ r < q
          /\ runState[r] = "failed"
          /\ runState[q] = "loading"

\* C14: no overlapping reloads.  At most one load of the reload action is
\* running at any time: a run that begins while a load is in flight, be it
\* the preload of create_app next to the scheduler's first run or a run whose
\* timer fired before the previous load ended, is attached to that load.
C14_NoOverlappingReloads ==
    /\ Cardinality(RunsLoading) <= 1
    /\ reloadInflight # 0 => RunsLoading = {reloadInflight}
    /\ \A r \in RunIds :
          runState[r] = "waiting" => (runOn[r] # r /\ runState[runOn[r]] # "none")

\* The preload and the scheduler's second run both began while the load of
\* the scheduler's first run was in flight.
C14_Witness ==
    /\ Cardinality(RunsInProgress) = 3
    /\ Cardinality(RunsLoading) = 1
    /\ \E r, q, p \in RunIds :
          /\ runBy[r] = "scheduler" /\ runState[r] = "loading"
          /\ runBy[q] = "preload" /\ runState[q] = "waiting" /\ runOn[q] = r
          /\ runBy[p] = "scheduler" /\ runState[p] = "waiting" /\ runOn[p] = r

\* ------------------------------------------------- image mapping snapshot
\* result.get('values', []) for the sheet's content number v: a header row
\* and one row [doi, image url] per preprint DOI; the urls of content v are
\* written v.
SheetVersions == 1 .. MaxSheetVersions
SheetValues(v) == << << 0, v >> >> \o [i \in 1 .. NumPreprintDois |-> << i, v >>]

\* dict(rows): the last row of a key gives its value.
RECURSIVE dict(_)
dict(rows) ==
    IF rows = << >> THEN EmptyMapping
    ELSE LET front == dict(SubSeq(rows, 1, Len(rows) - 1))
             last == rows[Len(rows)]
         IN  [front EXCEPT ![last[1]] = last[2]]

\* load_mapping: dict(values[1:])
load_mapping(v) == dict(Tail(SheetValues(v)))

\* reload: self.image_url_by_doi = self.load_mapping() -- the attribute is
\* bound to the new mapping, whole.
reload_assign_in_place(current, loaded) ==
    [d \in Dois |-> IF d = 1 THEN loaded[d] ELSE current[d]]
reload_assign(current, loaded) == loaded

\* get_article_image_url_by_doi: self.image_url_by_doi.get(article_doi)
get_article_image_url_by_doi(mapping, doi) == mapping[doi]

\* The mappings of the sheet's contents, each whole.
CompleteSnapshots == {load_mapping(v) : v \in SheetVersions}

\* __init__: the mapping is empty and the first reload is under way.
InitSnapshot ==
    /\ NoCacheActivity
    /\ NoPageRequest
    /\ NoScheduler
    /\ NoListsModel
    /\ NoLaterModels
    /\ sheet_version = 1
    /\ constructed = FALSE
    /\ reloadPc = "loading"
    /\ loaded_mapping = EmptyMapping
    /\ lastReload = "none"
    /\ readerPc = [r \in Readers |-> "idle"]
    /\ readerDoi = [r \in Readers |-> 0]
    /\ readerRef = [r \in Readers |-> EmptyMapping]
    /\ readerResult = [r \in Readers |-> 0]

\* Someone edits the sheet.
SheetEdited ==
    /\ sheet_version < MaxSheetVersions
    /\ sheet_version' = sheet_version + 1
    /\ UNCHANGED << constructed, reloadPc, loaded_mapping, lastReload,
                    readerPc, readerDoi, readerRef, readerResult, image_url_by_doi >>
    /\ UNCHANGED notSnapVars

\* The background refresh calls reload().
ReloadBegins ==
    /\ constructed
    /\ reloadPc = "idle"
    /\ reloadPc' = "loading"
    /\ UNCHANGED << sheet_version, constructed, loaded_mapping, lastReload,
                    readerPc, readerDoi, readerRef, readerResult, image_url_by_doi >>
    /\ UNCHANGED notSnapVars

\* load_mapping returns the mapping of the sheet as it is now.
LoadMappingReturns ==
    /\ reloadPc = "loading"
    /\ loaded_mapping' = load_mapping(sheet_version)
    /\ reloadPc' = "assign"
    /\ UNCHANGED << sheet_version, constructed, lastReload,
                    readerPc, readerDoi, readerRef, readerResult, image_url_by_doi >>
    /\ UNCHANGED notSnapVars

\* load_mapping raises (credentials, network): reload ends before the
\* assignment; in __init__ the provider does not come into being.
LoadMappingFails ==
    /\ reloadPc = "loading"
    /\ reloadPc' = IF constructed THEN "idle" ELSE "dead"
    /\ lastReload' = "failed"
    /\ UNCHANGED << sheet_version, constructed, loaded_mapping,
                    readerPc, readerDoi, readerRef, readerResult, image_url_by_doi >>
    /\ UNCHANGED notSnapVars

\* self.image_url_by_doi = <the loaded mapping>
ReloadAssigns ==
    /\ reloadPc = "assign"
    /\ image_url_by_doi' = reload_assign(image_url_by_doi, loaded_mapping)
    /\ reloadPc' = "idle"
    /\ lastReload' = "ok"
    /\ constructed' = TRUE
    /\ UNCHANGED << sheet_version, loaded_mapping,
                    readerPc, readerDoi, readerRef, readerResult >>
    /\ UNCHANGED notSnapVars

\* A reader evaluates self.image_url_by_doi for a lookup of doi.
ReaderReadsAttribute(r) ==
    /\ constructed
    /\ readerPc[r] = "idle"
    /\ \E doi \in Dois : readerDoi' = [readerDoi EXCEPT ![r] = doi]
    /\ readerRef' = [readerRef EXCEPT ![r] = image_url_by_doi]
    /\ readerPc' = [readerPc EXCEPT ![r] = "read"]
    /\ UNCHANGED << sheet_version, constructed, reloadPc, loaded_mapping, lastReload,
                    readerResult, image_url_by_doi >>
    /\ UNCHANGED notSnapVars

\* ... and calls .get(article_doi) on the mapping it read.
ReaderGets(r) ==
    /\ readerPc[r] = "read"
    /\ readerResult' = [readerResult EXCEPT ![r] =
                           get_article_image_url_by_doi(readerRef[r], readerDoi[r])]
    /\ readerPc' = [readerPc EXCEPT ![r] = "got"]
    /\ UNCHANGED << sheet_version, constructed, reloadPc, loaded_mapping, lastReload,
                    readerDoi, readerRef, image_url_by_doi >>
    /\ UNCHANGED notSnapVars

\* The reader goes on with what it got; it may look up again.
ReaderDone(r) ==
    /\ readerPc[r] = "got"
    /\ readerPc' = [readerPc EXCEPT ![r] = "idle"]
    /\ UNCHANGED << sheet_version, constructed, reloadPc, loaded_mapping, lastReload,
                    readerDoi, readerRef, readerResult, image_url_by_doi >>
    /\ UNCHANGED notSnapVars

NextSnapshot ==
    \/ SheetEdited
    \/ ReloadBegins
    \/ LoadMappingReturns
    \/ LoadMappingFails
    \/ ReloadAssigns
    \/ \E r \in Readers : ReaderReadsAttribute(r)
    \/ \E r \in Readers : ReaderGets(r)
    \/ \E r \in Readers : ReaderDone(r)

SpecSnapshot == InitSnapshot /\ [][NextSnapshot]_vars

\* C15: atomic snapshot swap.  Once the provider is in use, the mapping it
\* holds, and every mapping a reader has taken for a lookup, is the whole
\* mapping of one content of the sheet, never a mix of two; a lookup is
\* answered from the mapping the reader took; a reload changes the mapping
\* only by putting the newly loaded one in its place; and a reload that
\* fails leaves the mapping as it was.
C15_AtomicSnapshotSwap ==
    [][/\ constructed' => image_url_by_doi' \in CompleteSnapshots
       /\ \A r \in Readers :
             /\ readerPc'[r] # "idle" => readerRef'[r] \in CompleteSnapshots
             /\ readerPc'[r] = "got" =>
                   \E v \in SheetVersions :
                       /\ readerRef'[r] = load_mapping(v)
                       /\ readerResult'[r] = (IF is_preprint_doi(readerDoi'[r]) THEN v ELSE 0)
       /\ image_url_by_doi' # image_url_by_doi =>
             /\ reloadPc = "assign"
             /\ image_url_by_doi' = loaded_mapping
       /\ (reloadPc = "loading" /\ lastReload' = "failed" /\ reloadPc' # "assign") =>
             image_url_by_doi' = image_url_by_doi]_vars

\* A reader took the old mapping, the reload then put the new one in place,
\* and the reader was answered from the old one; a later reload failed, after
\* the sheet was edited again, and the new mapping is still there.
C15_Witness ==
    /\ constructed
    /\ lastReload = "failed"
    /\ image_url_by_doi = load_mapping(2)
    /\ sheet_version = 3
    /\ \E r \in Readers :
          /\ readerPc[r] = "got" /\ readerRef[r] = load_mapping(1)
          /\ is_preprint_doi(readerDoi[r]) /\ readerResult[r] = 1

\* -------------------------------------------------------------- lists model
\* ScietyEventNames, and a name that is neither of the two.
ARTICLE_ADDED_TO_LIST == "ArticleAddedToList"
ARTICLE_REMOVED_FROM_LIST == "ArticleRemovedFromList"
OtherEventName == "AnotherEvent"
EventNames == {ARTICLE_ADDED_TO_LIST, ARTICLE_REMOVED_FROM_LIST, OtherEventName}

\* The events of the query result.  has_list: sciety_list is a filled dict;
\* sciety_user: the event has a filled sciety_user; article_id 0: None.
\* __init__ uses the name and the timestamp of an event only when the event
\* has an article id: one name and one timestamp stand for the events
\* without.
EventsWithList ==
    [event_timestamp : 1 .. MaxTimestamp,
     event_name : EventNames,
     has_list : {TRUE},
     list_id : ListIds,
     sciety_user : BOOLEAN,
     article_id : 1 .. NumArticles]
    \cup
    [event_timestamp : {1},
     event_name : {OtherEventName},
     has_list : {TRUE},
     list_id : ListIds,
     sciety_user : BOOLEAN,
     article_id : {0}]
\* An event whose sciety_list is empty or None: __init__ ends on it before
\* it looks at the other fields, which are left out of the choice.
EventWithoutList ==
    [event_timestamp |-> 1, event_name |-> OtherEventName, has_list |-> FALSE,
     list_id |-> 1, sciety_user |-> FALSE, article_id |-> 0]
ScietyEvents == EventsWithList \cup {EventWithoutList}

\* sciety_list['list_id'] is evaluated before `if not sciety_list`: an empty
\* or missing sciety_list ends __init__ with KeyError or TypeError.
event_is_rejected(event) == ~event.has_list

\* self._sciety_list_meta_by_list_id[list_id] = list_meta
list_meta_after_event(keys, event) ==
    IF \E i \in 1 .. Len(keys) : keys[i] = event.list_id
    THEN keys ELSE Append(keys, event.list_id)

\* if list_id and sciety_user: self._owner_meta_by_list_id[list_id] = ...
owner_meta_after_event(owners, event) ==
    IF event.sciety_user
    THEN [owners EXCEPT ![event.list_id] = TRUE]
    ELSE owners

\* if list_id and article_id: self._last_updated_by_list_id[list_id] = event_timestamp
last_updated_after_event_first_kept(last_updated, event) ==
    IF event.article_id # 0 /\ last_updated[event.list_id] = 0
    THEN [last_updated EXCEPT ![event.list_id] = event.event_timestamp]
    ELSE last_updated
last_updated_after_event(last_updated, event) ==
    IF event.article_id # 0
    THEN [last_updated EXCEPT ![event.list_id] = event.event_timestamp]
    ELSE last_updated

\* if list_id and article_id: add on ArticleAddedToList; remove on
\* ArticleRemovedFromList, a KeyError of remove passed over.
article_ids_after_event_without_remove(article_ids, event) ==
    IF event.article_id = 0 THEN article_ids
    ELSE IF event.event_name = ARTICLE_ADDED_TO_LIST
    THEN [article_ids EXCEPT ![event.list_id] = @ \cup {event.article_id}]
    ELSE article_ids
article_ids_after_event(article_ids, event) ==
    IF event.article_id = 0 THEN article_ids
    ELSE IF event.event_name = ARTICLE_ADDED_TO_LIST
    THEN [article_ids EXCEPT ![event.list_id] = @ \cup {event.article_id}]
    ELSE IF event.event_name = ARTICLE_REMOVED_FROM_LIST
    THEN [article_ids EXCEPT ![event.list_id] = @ \ {event.article_id}]
    ELSE article_ids

\* What the event log says about an article of a list, whatever the model
\* makes of it: the last add or remove event, and how many adds there were.
article_events_after(log, event) ==
    IF ~event.has_list \/ event.article_id = 0
       \/ event.event_name \notin {ARTICLE_ADDED_TO_LIST, ARTICLE_REMOVED_FROM_LIST}
    THEN log
    ELSE [log EXCEPT ![event.list_id][event.article_id] =
             [last |-> event.event_name,
              adds |-> @.adds + (IF event.event_name = ARTICLE_ADDED_TO_LIST THEN 1 ELSE 0)]]

\* What the event log says about the timestamps of a list, whatever the
\* model makes of them: the latest event_timestamp among the events that
\* carry an article id, and whether each of them was at least as late as
\* the ones before it.
timestamp_events_after(log, event) ==
    IF ~event.has_list \/ event.article_id = 0
    THEN log
    ELSE [log EXCEPT ![event.list_id] =
             [latest |-> IF event.event_timestamp > @.latest
                         THEN event.event_timestamp ELSE @.latest,
              in_order |-> @.in_order /\ event.event_timestamp >= @.latest]]

\* get_most_active_user_lists: one ListSummaryData per list meta; the owner
\* and the last update are read with [], which raises KeyError on a list
\* that has none.
summary_raises(keys, owners, last_updated) ==
    \E i \in 1 .. Len(keys) : ~owners[keys[i]] \/ last_updated[keys[i]] = 0
get_most_active_user_lists(keys, owners, article_ids, last_updated) ==
    [i \in 1 .. Len(keys) |->
        [list_id |-> keys[i],
         owner |-> owners[keys[i]],
         article_count |-> Cardinality(article_ids[keys[i]]),
         last_updated_datetime |-> last_updated[keys[i]]]]

\* ScietyEventListsModel(sciety_events): the four dicts are empty.
InitLists ==
    /\ NoCacheActivity
    /\ NoPageRequest
    /\ NoScheduler
    /\ NoSnapshotActivity
    /\ NoLaterModels
    /\ listsPc = "folding"
    /\ eventsFolded = 0
    /\ sciety_list_meta_by_list_id = << >>
    /\ owner_meta_by_list_id = [l \in ListIds |-> FALSE]
    /\ article_ids_by_list_id = [l \in ListIds |-> {}]
    /\ last_updated_by_list_id = [l \in ListIds |-> 0]
    /\ summaries = << >>
    /\ articleEvents = NoArticleEvents
    /\ timestampEvents = NoTimestampEvents

\* One pass of `for event in sciety_events`.
FoldEvent ==
    /\ listsPc = "folding"
    /\ eventsFolded < MaxEvents
    /\ \E event \in ScietyEvents :
          /\ articleEvents' = article_events_after(articleEvents, event)
          /\ timestampEvents' = timestamp_events_after(timestampEvents, event)
          /\ IF event_is_rejected(event)
             THEN /\ listsPc' = "rejected"
                  /\ UNCHANGED << sciety_list_meta_by_list_id, owner_meta_by_list_id,
                                  article_ids_by_list_id, last_updated_by_list_id >>
             ELSE /\ sciety_list_meta_by_list_id' =
                        list_meta_after_event(sciety_list_meta_by_list_id, event)
                  /\ owner_meta_by_list_id' =
                        owner_meta_after_event(owner_meta_by_list_id, event)
                  /\ last_updated_by_list_id' =
                        last_updated_after_event(last_updated_by_list_id, event)
                  /\ article_ids_by_list_id' =
                        article_ids_after_event(article_ids_by_list_id, event)
                  /\ UNCHANGED listsPc
    /\ eventsFolded' = eventsFolded + 1
    /\ UNCHANGED summaries
    /\ UNCHANGED notListVars

\* The events are used up: __init__ returns.
ConstructorReturns ==
    /\ listsPc = "folding"
    /\ listsPc' = "constructed"
    /\ UNCHANGED << eventsFolded, sciety_list_meta_by_list_id, owner_meta_by_list_id,
                    article_ids_by_list_id, last_updated_by_list_id, summaries,
                    articleEvents, timestampEvents >>
    /\ UNCHANGED notListVars

\* get_most_active_user_lists() is called on the model.
GetMostActiveUserLists ==
    /\ listsPc = "constructed"
    /\ IF summary_raises(sciety_list_meta_by_list_id, owner_meta_by_list_id,
                         last_updated_by_list_id)
       THEN /\ listsPc' = "raised"
            /\ UNCHANGED summaries
       ELSE /\ listsPc' = "summarized"
            /\ summaries' = get_most_active_user_lists(
                                sciety_list_meta_by_list_id, owner_meta_by_list_id,
                                article_ids_by_list_id, last_updated_by_list_id)
    /\ UNCHANGED << eventsFolded, sciety_list_meta_by_list_id, owner_meta_by_list_id,
                    article_ids_by_list_id, last_updated_by_list_id, articleEvents,
                    timestampEvents >>
    /\ UNCHANGED notListVars

NextLists ==
    \/ FoldEvent
    \/ ConstructorReturns
    \/ GetMostActiveUserLists

SpecLists == InitLists /\ [][NextLists]_vars

\* The articles of list l that the events added and did not remove
\* afterwards.
ArticlesInList(l) ==
    {a \in ArticleIds : articleEvents[l][a].last = ARTICLE_ADDED_TO_LIST}

\* C20: list article count.  After the model has folded any sequence of
\* events in order, the article count of every list is the number of
\* distinct article ids added to the list and not removed afterwards, in the
\* model's sets and in every summary get_most_active_user_lists returns.
C20_ListArticleCount ==
    listsPc # "rejected" =>
        /\ \A l \in ListIds :
              Cardinality(article_ids_by_list_id[l]) = Cardinality(ArticlesInList(l))
        /\ listsPc = "summarized" =>
              \A i \in 1 .. Len(summaries) :
                  summaries[i].article_count =
                      Cardinality(ArticlesInList(summaries[i].list_id))

\* A list's summary counts one article: it was added twice, and the other
\* article of the list was removed.
C20_Witness ==
    /\ listsPc = "summarized"
    /\ \E i \in 1 .. Len(summaries) :
          /\ summaries[i].article_count = 1
          /\ \E a, b \in ArticleIds :
                /\ articleEvents[summaries[i].list_id][a].last = ARTICLE_ADDED_TO_LIST
                /\ articleEvents[summaries[i].list_id][a].adds = 2
                /\ articleEvents[summaries[i].list_id][b].last = ARTICLE_REMOVED_FROM_LIST

\* C21 as stated: last-updated date.  For every sequence of events, the
\* last update the model holds for a list, and reports in the list's
\* summary, is the latest event_timestamp among the list's events that
\* carry an article id.
C21_LastUpdatedIsLatest ==
    listsPc # "rejected" =>
        /\ \A l \in ListIds : last_updated_by_list_id[l] = timestampEvents[l].latest
        /\ listsPc = "summarized" =>
              \A i \in 1 .. Len(summaries) :
                  summaries[i].last_updated_datetime =
                      timestampEvents[summaries[i].list_id].latest

\* C21: last-updated date.  The last update of a list is never later than
\* the latest event_timestamp among the list's events that carry an article
\* id, it is set exactly when there is such an event, and it is that latest
\* timestamp whenever those events came in the order of their timestamps;
\* the summary reports the same.
C21_LastUpdatedInOrder ==
    listsPc # "rejected" =>
        /\ \A l \in ListIds :
              /\ last_updated_by_list_id[l] <= timestampEvents[l].latest
              /\ last_updated_by_list_id[l] = 0 <=> timestampEvents[l].latest = 0
              /\ timestampEvents[l].in_order =>
                    last_updated_by_list_id[l] = timestampEvents[l].latest
        /\ listsPc = "summarized" =>
              \A i \in 1 .. Len(summaries) :
                  /\ summaries[i].last_updated_datetime =
                        last_updated_by_list_id[summaries[i].list_id]
                  /\ timestampEvents[summaries[i].list_id].in_order =>
                        summaries[i].last_updated_datetime =
                            timestampEvents[summaries[i].list_id].latest

\* A summary reports the later of two timestamps that came in order: two
\* articles are in the list and the report is later than the first
\* timestamp.
C21_Witness ==
    /\ listsPc = "summarized"
    /\ \E i \in 1 .. Len(summaries) :
          /\ timestampEvents[summaries[i].list_id].in_order
          /\ summaries[i].article_count = 2
          /\ summaries[i].last_updated_datetime = timestampEvents[summaries[i].list_id].latest
          /\ summaries[i].last_updated_datetime > 1

\* ---------------------------------------------------------- threaded_logging
\* isinstance(handler, logging.StreamHandler), and a QueueHandler.
IsStreamHandler(handler) == handler.kind = "StreamHandler"
IsNotStreamHandler(handler) == ~IsStreamHandler(handler)
IsQueueHandler(handler) == handler.kind = "QueueHandler"

\* logger.handlers = [the handlers that are no StreamHandler] + [queue_handler]
handlers_in_context(handlers, queue_handler) ==
    SelectSeq(handlers, IsNotStreamHandler) \o << queue_handler >>

\* finally: for logger, original_handlers in zip(...): logger.handlers = original_handlers
handlers_on_exit_kept(current, original) == current
handlers_on_exit(current, original) == original

\* QueueListener(logging_queue, *queue_handlers): the handlers the listener
\* thread hands its records to.
queue_listener_handlers(queue_handler_list, original_list) == queue_handler_list

\* Handler.handle(record) on each handler of a list: a QueueHandler puts the
\* record on the queue, a StreamHandler writes it out.
queue_after_handle(a_queue, handlers, record) ==
    a_queue \o [i \in 1 .. Len(SelectSeq(handlers, IsQueueHandler)) |-> record]
deliveries_after_handle(deliveries, handlers, record) ==
    [deliveries EXCEPT ![record] = @ + Len(SelectSeq(handlers, IsStreamHandler))]

\* The loggers are given with the handlers they have.
InitLogging ==
    /\ NoCacheActivity
    /\ NoPageRequest
    /\ NoScheduler
    /\ NoSnapshotActivity
    /\ NoListsModel
    /\ NoRecommendationRequest
    /\ NoMiddlewareRequest
    /\ logPc = "before"
    /\ loggerHandlers \in [Loggers -> HandlerLists]
    /\ handlersAtEntry = loggerHandlers
    /\ original_handlers_list = << >>
    /\ queue_handlers = << >>
    /\ logging_queue = << >>
    /\ listenerState = "none"
    /\ listenerHandlers = << >>
    /\ recordLogger = [r \in Records |-> 0]
    /\ streamDeliveries = [r \in Records |-> 0]
    /\ handled = 0
    /\ bodyOutcome = "none"

\* original_handlers_list = [logger.handlers for logger in loggers]
EnterContext ==
    /\ logPc = "before"
    /\ original_handlers_list' = [l \in Loggers |-> loggerHandlers[l]]
    /\ logPc' = "replacing"
    /\ UNCHANGED << loggerHandlers, handlersAtEntry, queue_handlers, logging_queue,
                    listenerState, listenerHandlers, recordLogger, streamDeliveries,
                    handled, bodyOutcome >>
    /\ UNCHANGED notLogVars

\* One pass of `for logger in loggers`.
ReplaceHandlers ==
    /\ logPc = "replacing"
    /\ LET l == Len(queue_handlers) + 1
       IN  /\ loggerHandlers' =
                 [loggerHandlers EXCEPT ![l] = handlers_in_context(@, QueueHandler(l))]
           /\ queue_handlers' = Append(queue_handlers, QueueHandler(l))
           /\ logPc' = IF l = NumLoggers THEN "starting" ELSE "replacing"
    /\ UNCHANGED << handlersAtEntry, original_handlers_list, logging_queue, listenerState,
                    listenerHandlers, recordLogger, streamDeliveries, handled, bodyOutcome >>
    /\ UNCHANGED notLogVars

\* queue_listener = QueueListener(...); queue_listener.start(); yield
StartListener ==
    /\ logPc = "starting"
    /\ listenerHandlers' = queue_listener_handlers(queue_handlers, original_handlers_list)
    /\ listenerState' = "running"
    /\ logPc' = "active"
    /\ UNCHANGED << loggerHandlers, handlersAtEntry, original_handlers_list, queue_handlers,
                    logging_queue, recordLogger, streamDeliveries, handled, bodyOutcome >>
    /\ UNCHANGED notLogVars

\* The with body logs a record through one of the loggers: the logger hands
\* it to each of its handlers.
LogRecord(l) ==
    /\ logPc = "active"
    /\ \E r \in Records :
          /\ recordLogger[r] = 0
          /\ \A q \in Records : q < r => recordLogger[q] # 0
          /\ recordLogger' = [recordLogger EXCEPT ![r] = l]
          /\ logging_queue' = queue_after_handle(logging_queue, loggerHandlers[l], r)
          /\ streamDeliveries' = deliveries_after_handle(streamDeliveries, loggerHandlers[l], r)
    /\ UNCHANGED << logPc, loggerHandlers, handlersAtEntry, original_handlers_list,
                    queue_handlers, listenerState, listenerHandlers, handled, bodyOutcome >>
    /\ UNCHANGED notLogVars

\* The listener thread takes a record off the queue and hands it to each of
\* its handlers.
ListenerHandles ==
    /\ listenerState = "running"
    /\ logging_queue # << >>
    /\ Head(logging_queue) # 0
    /\ handled < MaxHandles
    /\ logging_queue' =
          queue_after_handle(Tail(logging_queue), listenerHandlers, Head(logging_queue))
    /\ streamDeliveries' =
          deliveries_after_handle(streamDeliveries, listenerHandlers, Head(logging_queue))
    /\ handled' = handled + 1
    /\ UNCHANGED << logPc, loggerHandlers, handlersAtEntry, original_handlers_list,
                    queue_handlers, listenerState, listenerHandlers, recordLogger,
                    bodyOutcome >>
    /\ UNCHANGED notLogVars

\* The listener thread takes the sentinel off the queue and ends.
ListenerEnds ==
    /\ listenerState = "running"
    /\ logging_queue # << >>
    /\ Head(logging_queue) = 0
    /\ logging_queue' = Tail(logging_queue)
    /\ listenerState' = "stopped"
    /\ UNCHANGED << logPc, loggerHandlers, handlersAtEntry, original_handlers_list,
                    queue_handlers, listenerHandlers, recordLogger, streamDeliveries,
                    handled, bodyOutcome >>
    /\ UNCHANGED notLogVars

\* The with body ends, by returning or by raising.
BodyEnds(outcome) ==
    /\ logPc = "active"
    /\ bodyOutcome' = outcome
    /\ logPc' = "finally"
    /\ UNCHANGED << loggerHandlers, handlersAtEntry, original_handlers_list, queue_handlers,
                    logging_queue, listenerState, listenerHandlers, recordLogger,
                    streamDeliveries, handled >>
    /\ UNCHANGED notLogVars
BodyReturns == BodyEnds("returned")
BodyRaises == BodyEnds("raised")

\* queue_listener.stop(): the sentinel is put on the queue, then the thread
\* is joined.
StopListener ==
    /\ logPc = "finally"
    /\ logging_queue' = Append(logging_queue, 0)
    /\ logPc' = "joining"
    /\ UNCHANGED << loggerHandlers, handlersAtEntry, original_handlers_list, queue_handlers,
                    listenerState, listenerHandlers, recordLogger, streamDeliveries,
                    handled, bodyOutcome >>
    /\ UNCHANGED notLogVars

\* The join returns; every logger is given its original handlers.
RestoreHandlers ==
    /\ logPc = "joining"
    /\ listenerState = "stopped"
    /\ loggerHandlers' =
          [l \in Loggers |-> handlers_on_exit(loggerHandlers[l], original_handlers_list[l])]
    /\ logPc' = "exited"
    /\ UNCHANGED << handlersAtEntry, original_handlers_list, queue_handlers, logging_queue,
                    listenerState, listenerHandlers, recordLogger, streamDeliveries,
                    handled, bodyOutcome >>
    /\ UNCHANGED notLogVars

NextLogging ==
    \/ EnterContext
    \/ ReplaceHandlers
    \/ StartListener
    \/ \E l \in Loggers : LogRecord(l)
    \/ ListenerHandles
    \/ ListenerEnds
    \/ BodyReturns
    \/ BodyRaises
    \/ StopListener
    \/ RestoreHandlers

SpecLogging == InitLogging /\ [][NextLogging]_vars

\* C22: threaded_logging restores handlers.  Inside the context every given
\* logger has its handlers that are no stream handler, in their order,
\* followed by one queue handler; once the context is left, by return or by
\* exception, every given logger has exactly the handlers it had on entry.
C22_HandlersRestored ==
    /\ logPc \in {"active", "finally", "joining"} =>
          \A l \in Loggers :
              /\ loggerHandlers[l] =
                    SelectSeq(handlersAtEntry[l], IsNotStreamHandler) \o << QueueHandler(l) >>
              /\ Len(SelectSeq(loggerHandlers[l], IsQueueHandler)) = 1
              /\ SelectSeq(loggerHandlers[l], IsStreamHandler) = << >>
    /\ logPc = "exited" =>
          /\ bodyOutcome \in {"returned", "raised"}
          /\ loggerHandlers = handlersAtEntry

\* The body raised after a record was logged; a logger that had no handlers
\* and a logger that had a stream handler and another handler have them back.
C22_Witness ==
    /\ logPc = "exited"
    /\ bodyOutcome = "raised"
    /\ \E r \in Records : recordLogger[r] # 0
    /\ \E l, k \in Loggers :
          /\ loggerHandlers[l] = << >>
          /\ loggerHandlers[k] = << OtherHandler, StreamHandler >>

\* ------------------------------------------------- cache coordination ends
\* The in-flight state is set exactly while a load_fn invocation of the
\* cache is running.
InflightOnlyDuringLoad ==
    query_results_cache = InMemorySingleObjectCache =>
        /\ inflight # 0 =>
              /\ loadResult[inflight] = Running
              /\ \E c \in Callers : pc[c] = "loading" /\ loadOf[c] = inflight
        /\ inflight = 0 => \A c \in Callers : pc[c] # "loading"

\* A call that starts to wait waits for a load that is running, and the end
\* of a load clears the in-flight state.
WaitsOnlyOnRunningLoad ==
    \A c \in Callers :
        /\ (pc[c] = "idle" /\ pc'[c] = "waiting") => loadResult[loadOf'[c]] = Running
        /\ (pc[c] = "loading" /\ pc'[c] = "returned"
              /\ query_results_cache = InMemorySingleObjectCache) => inflight' = 0

\* C23: cache coordination ends with the load.  The in-flight state of the
\* cache is set only while a load_fn invocation runs and is cleared when it
\* ends, by success or failure; so, load_fn terminating, the loader and
\* every waiter eventually return, and a call after a failed load finds no
\* in-flight state to wait on.
C23_CoordinationEndsWithLoad ==
    /\ []InflightOnlyDuringLoad
    /\ [][WaitsOnlyOnRunningLoad]_vars
    /\ \A c \in Callers : (pc[c] \in {"loading", "waiting"}) ~> (pc[c] = "returned")

\* A waiter has received the failure of the load it waited for, and a later
\* call has started a new load.
C23_Witness ==
    \E c, d \in Callers :
        /\ pc[d] = "returned" /\ via[d] = "wait" /\ result[d] = Failure
        /\ pc[c] = "loading" /\ loadOf[c] > loadOf[d]
        /\ inflight = loadOf[c]

\* ---------------------------------------------------- article recommendations
\* The DOI lists a recommendation source can return: documents of an index
\* are distinct, any of them may be a preprint or not.
IsInjective(s) == \A i, j \in 1 .. Len(s) : s[i] = s[j] => i = j
DoiLists == {s \in SeqsUpTo(Dois, NumPreprintDois + 1) : IsInjective(s)}

\* The calls: recommendations for one article, or for the articles of a list.
ArticleDoiLists == { << 1 >>, << 1, 2 >> }

\* if not max_recommendations: max_recommendations = DEFAULT_OPENSEARCH_MAX_RECOMMENDATIONS
effective_max_recommendations(given) ==
    IF given = 0 THEN DEFAULT_OPENSEARCH_MAX_RECOMMENDATIONS ELSE given

\* _run_vector_search_and_get_hits: client_search_results['hits']['hits'][:max_results]
run_vector_search_and_get_hits(client_hits, max_results) == Take(client_hits, max_results)

\* iter_article_recommendation_from_opensearch_hits: the hits in order,
\* those with an excluded DOI left out.
RECURSIVE iter_article_recommendation_from_opensearch_hits(_, _)
iter_article_recommendation_from_opensearch_hits(some_hits, exclude_article_dois) ==
    IF some_hits = << >> THEN << >>
    ELSE IF Head(some_hits) \in exclude_article_dois
         THEN iter_article_recommendation_from_opensearch_hits(
                  Tail(some_hits), exclude_article_dois)
         ELSE << Head(some_hits) >>
              \o iter_article_recommendation_from_opensearch_hits(
                     Tail(some_hits), exclude_article_dois)

\* get_article_recommendation_list_for_article_doi, once the embedding
\* vector is found: 1 + max_recommendations hits are asked for and the
\* article's own DOI is excluded from them.
recommendations_from_hits(client_hits, article_doi, given_max) ==
    iter_article_recommendation_from_opensearch_hits(
        run_vector_search_and_get_hits(
            client_hits, 1 + effective_max_recommendations(given_max)),
        {article_doi})

\* ArticleAggregator.iter_page_article_mention_with_article_meta_and_stats on
\* a list of mentions: stats on every mention, the window, metadata and
\* image on the window.
iter_page_article_mention_with_article_meta_and_stats(mentions, pg, k, answered, mapping) ==
    iter_article_mention_with_article_image_url(
        mapping,
        with_article_meta(
            get_page_iterable([i \in 1 .. Len(mentions) |-> with_article_stats(mentions[i])],
                              pg, k),
            answered))

\* item_count = len(all_article_recommendations)
recommendation_item_count_of_page(all_article_recommendations, page_items) ==
    Len(page_items)
recommendation_item_count(all_article_recommendations, page_items) ==
    Len(all_article_recommendations)

\* get_article_recommendation_page_and_item_count_for_article_dois is called.
InitRecommendation ==
    /\ NoCacheActivity
    /\ NoPageRequest
    /\ NoScheduler
    /\ NoSnapshotActivity
    /\ NoListsModel
    /\ NoLogging
    /\ NoMiddlewareRequest
    /\ recPc = "request"
    /\ article_dois \in ArticleDoiLists
    /\ max_recommendations \in 0 .. MaxRecommendations
    /\ single_article_recommendation_provider \in BOOLEAN
    /\ recVia = "none"
    /\ opensearch_doc = "unread"
    /\ hits = << >>
    /\ article_recommendation_list = << >>
    /\ pagination_parameters = NoPagination
    /\ article_recommendation_with_article_meta = << >>
    /\ item_count = 0

\* One DOI and a single article recommendation provider: the provider gets
\* the article's document from the index.  Without document or embedding
\* vector it returns an empty list.
GetArticleDocument ==
    /\ recPc = "request"
    /\ Len(article_dois) = 1 /\ single_article_recommendation_provider
    /\ recVia' = "single"
    /\ \E doc \in {"missing", "no_vector", "found"} :
          /\ opensearch_doc' = doc
          /\ recPc' = IF doc = "found" THEN "searching" ELSE "listed"
    /\ article_recommendation_list' = << >>
    /\ UNCHANGED << article_dois, max_recommendations,
                    single_article_recommendation_provider, hits, pagination_parameters,
                    article_recommendation_with_article_meta, item_count >>
    /\ UNCHANGED notRecVars

\* The vector search answers; the provider returns its recommendation list.
VectorSearch ==
    /\ recPc = "searching"
    /\ \E client_hits \in DoiLists :
          /\ hits' = client_hits
          /\ article_recommendation_list' =
                recommendations_from_hits(client_hits, article_dois[1], max_recommendations)
    /\ recPc' = "listed"
    /\ UNCHANGED << article_dois, max_recommendations,
                    single_article_recommendation_provider, recVia, opensearch_doc,
                    pagination_parameters, article_recommendation_with_article_meta,
                    item_count >>
    /\ UNCHANGED notRecVars

\* Otherwise the article recommendation provider is asked for the DOIs.
GetRecommendationsForDois ==
    /\ recPc = "request"
    /\ ~(Len(article_dois) = 1 /\ single_article_recommendation_provider)
    /\ recVia' = "multiple"
    /\ \E recommendations \in DoiLists :
          article_recommendation_list' = recommendations
    /\ recPc' = "listed"
    /\ UNCHANGED << article_dois, max_recommendations,
                    single_article_recommendation_provider, opensearch_doc, hits,
                    pagination_parameters, article_recommendation_with_article_meta,
                    item_count >>
    /\ UNCHANGED notRecVars

\* The preprint recommendations are listed and counted, and the aggregator
\* returns the requested page of them; a failure of the metadata provider on
\* a page with items ends the call with that failure.
PageAndItemCount ==
    /\ recPc = "listed"
    /\ \E pg \in 1 .. MaxPage, k \in -1 .. MaxItemsPerPage,
          answered \in CrossrefKnownSets, mapping \in ImageMappings,
          meta_outcome \in {"none", "HTTPError"} :
          LET all_article_recommendations ==
                  iter_preprint_article_mention(article_recommendation_list)
              mentions ==
                  [i \in 1 .. Len(all_article_recommendations) |->
                      ArticleMention(all_article_recommendations[i])]
              page_items ==
                  iter_page_article_mention_with_article_meta_and_stats(
                      mentions, pg, k, answered, mapping)
          IN  /\ pagination_parameters' = [page |-> pg, items_per_page |-> k]
              /\ IF meta_outcome # "none" /\ page_items # << >>
                 THEN /\ recPc' = "raised"
                      /\ UNCHANGED << article_recommendation_with_article_meta, item_count >>
                 ELSE /\ recPc' = "done"
                      /\ article_recommendation_with_article_meta' = page_items
                      /\ item_count' =
                            recommendation_item_count(all_article_recommendations, page_items)
    /\ UNCHANGED << article_dois, max_recommendations,
                    single_article_recommendation_provider, recVia, opensearch_doc, hits,
                    article_recommendation_list >>
    /\ UNCHANGED notRecVars

NextRecommendation ==
    \/ GetArticleDocument
    \/ VectorSearch
    \/ GetRecommendationsForDois
    \/ PageAndItemCount

SpecRecommendation == InitRecommendation /\ [][NextRecommendation]_vars

\* The positions of the preprint recommendations in the recommendation list.
PreprintPositions ==
    {i \in 1 .. Len(article_recommendation_list) :
        is_preprint_doi(article_recommendation_list[i])}
\* The DOI of the n-th preprint recommendation.
NthPreprintRecommendation(n) ==
    article_recommendation_list[
        CHOOSE i \in PreprintPositions :
            Cardinality({j \in PreprintPositions : j <= i}) = n]

\* C24: recommendation page and count.  The item count returned is the
\* number of preprint recommendations, whatever the page and items_per_page;
\* the page returned holds, in order, the preprint recommendations of the
\* requested window, so it has no more than items_per_page items and no more
\* than item_count items.
C24_RecommendationPageAndCount ==
    recPc = "done" =>
        LET pg == pagination_parameters.page
            k == pagination_parameters.items_per_page
            offset == IF k > 0 THEN (pg - 1) * k ELSE 0
            returned == article_recommendation_with_article_meta
        IN  /\ item_count = Cardinality(PreprintPositions)
            /\ Len(returned) <= item_count
            /\ k > 0 => Len(returned) = Max(0, Min(k, item_count - offset))
            /\ IsAbsent(k) => Len(returned) = item_count
            /\ k >= 0 => \A j \in 1 .. Len(returned) :
                  returned[j].article_doi = NthPreprintRecommendation(offset + j)

\* The second page of one item was asked for: it holds the second of the
\* preprint recommendations, the count is larger than the page, and a
\* recommendation that is no preprint was left out.
C24_Witness ==
    /\ recPc = "done"
    /\ pagination_parameters = [page |-> 2, items_per_page |-> 1]
    /\ Len(article_recommendation_with_article_meta) = 1
    /\ item_count = 2
    /\ Len(article_recommendation_list) = 3

\* ------------------------------------------------ page request, later claims
\* The aggregator has yielded its page without an error of a provider.
YieldedNormally ==
    /\ rpc \in {"listed", "done"}
    /\ ~aggResult.raised
    /\ upstreamError = "none" /\ metaError = "none"

\* With or without DEBUG the page is what the plain iteration of the image
\* stage yields, each of its records produced once.
SameAsWithoutDebug ==
    YieldedNormally =>
        /\ search_results = Drain(PlainIterable(withImage))
        /\ \A i \in 1 .. Len(producedTimes) : producedTimes[i] = 1

\* The look-ahead and the iteration pull nothing from the search provider
\* and call no provider.
NoCallsWhileYielding ==
    rpc \in {"peek", "yield"} =>
        /\ upstreamPulls' = upstreamPulls
        /\ metaCalls' = metaCalls
        /\ statsOut' = statsOut
        /\ search_result_iterator' = search_result_iterator

\* C25: diagnostic look-ahead is transparent.  With DEBUG logging enabled
\* (one item peeked and logged) the aggregator yields the same records in
\* the same order as with DEBUG disabled, and in both cases every item is
\* pulled once and the providers are called the same number of times.
C25_LookaheadTransparent ==
    /\ []SameAsWithoutDebug
    /\ [][NoCallsWhileYielding]_vars

\* With DEBUG enabled a page of two records was peeked at and then yielded
\* after one metadata request.
C25_Witness ==
    /\ debug /\ rpc = "listed"
    /\ first_item # {}
    /\ Len(search_results) = 2
    /\ metaCalls = 1 /\ items_per_page = 2
    /\ page = 2

\* C26: the search route handles every provider error.  Once the route has
\* answered a request during which the search provider raised an HTTP error,
\* the response has the upstream status code, an error message, an empty
\* result list and has_next = false, and the error has not left the route.
C26_SearchHandlesProviderErrors ==
    ((upstreamError = "HTTPError" \/ paginationError = "HTTPError") /\ response.sent) =>
        /\ rpc # "failed"
        /\ response.status_code = UpstreamStatus
        /\ response.error_message
        /\ search_results = << >>
        /\ ~response.has_next

\* The position of a DOI among the hits (0: it is not among them).
HitPosition(doi) ==
    IF \E i \in 1 .. Len(hits) : hits[i] = doi
    THEN CHOOSE i \in 1 .. Len(hits) : hits[i] = doi
    ELSE 0

\* The single article recommendation provider has returned its list.
SingleProviderReturned == recVia = "single" /\ recPc \in {"listed", "done", "raised"}

\* The list never holds the article's own DOI, holds hits only, in the order
\* of the hits, and is empty when the article or its vector is missing.
RecommendationsAreOtherHitsInOrder ==
    SingleProviderReturned =>
        LET recommendations == article_recommendation_list
        IN  /\ \A i \in 1 .. Len(recommendations) :
                  /\ recommendations[i] # article_dois[1]
                  /\ HitPosition(recommendations[i]) # 0
            /\ \A i, j \in 1 .. Len(recommendations) :
                  i < j => HitPosition(recommendations[i]) < HitPosition(recommendations[j])
            /\ opensearch_doc \in {"missing", "no_vector"} => recommendations = << >>

\* C27: recommendation limit.  The list the single article recommendation
\* provider returns has at most max_recommendations entries
\* (DEFAULT_OPENSEARCH_MAX_RECOMMENDATIONS when none is given), never the
\* article's own DOI, the remaining hits in the order of the search, and is
\* empty when the article or its embedding vector is missing.
C27_RecommendationLimit ==
    /\ RecommendationsAreOtherHitsInOrder
    /\ SingleProviderReturned =>
          Len(article_recommendation_list) <= effective_max_recommendations(max_recommendations)

\* C28: threaded_logging delivers records.  When the context has been left,
\* the listener thread has stopped and every record logged through a given
\* logger inside the context has been passed exactly once to each stream
\* handler the logger had on entry.
C28_RecordsDelivered ==
    logPc = "exited" =>
        /\ listenerState = "stopped"
        /\ \A r \in Records :
              recordLogger[r] # 0 =>
                  streamDeliveries[r] =
                      Len(SelectSeq(handlersAtEntry[recordLogger[r]], IsStreamHandler))

\* C29: list summaries are total.  For every event sequence the model
\* accepts, every list id of the list-meta map has an owner entry and a
\* last-updated entry, and get_most_active_user_lists does not fail and
\* returns one summary per list id, each list id once.
C29_SummariesTotal ==
    /\ listsPc \in {"constructed", "summarized", "raised"} =>
          \A i \in 1 .. Len(sciety_list_meta_by_list_id) :
              /\ owner_meta_by_list_id[sciety_list_meta_by_list_id[i]]
              /\ last_updated_by_list_id[sciety_list_meta_by_list_id[i]] # 0
    /\ listsPc # "raised"
    /\ listsPc = "summarized" =>
          /\ Len(summaries) = Len(sciety_list_meta_by_list_id)
          /\ \A i \in 1 .. Len(summaries) :
                summaries[i].list_id = sciety_list_meta_by_list_id[i]
          /\ \A i, j \in 1 .. Len(summaries) :
                summaries[i].list_id = summaries[j].list_id => i = j

\* ------------------------------------- RedirectDoubleQueryStringMiddleware
\* Query strings are sequences of characters; "?" is the one that matters.
QueryChars == {"a", "&", "?"}
QueryStrings == SeqsUpTo(QueryChars, MaxQueryLen)
\* The path of the URL, which holds no "?".
UrlPath == << "/" >>

\* The positions of "?" in a string.
QuestionMarks(s) == {i \in 1 .. Len(s) : s[i] = "?"}

\* url.query.split('?', maxsplit=1): the part before the first "?", and the
\* rest when there is a "?".
split_at_last_question_mark(query) ==
    IF QuestionMarks(query) = {} THEN << query >>
    ELSE LET at == CHOOSE i \in QuestionMarks(query) : \A j \in QuestionMarks(query) : j <= i
         IN  << SubSeq(query, 1, at - 1), SubSeq(query, at + 1, Len(query)) >>
split_maxsplit_1(query) ==
    IF QuestionMarks(query) = {} THEN << query >>
    ELSE LET at == CHOOSE i \in QuestionMarks(query) : \A j \in QuestionMarks(query) : i <= j
         IN  << SubSeq(query, 1, at - 1), SubSeq(query, at + 1, Len(query)) >>

\* str(url.replace(query=...)): the path, and "?" and the query when the
\* query is not empty.
url_with_query(query) ==
    IF query = << >> THEN UrlPath ELSE UrlPath \o << "?" >> \o query

\* URL(scope=scope).query of the request a client sends for a URL: what
\* follows the first "?" of the URL.
query_of_url(url) ==
    IF QuestionMarks(url) = {} THEN << >>
    ELSE LET at == CHOOSE i \in QuestionMarks(url) : \A j \in QuestionMarks(url) : i <= j
         IN  SubSeq(url, at + 1, Len(url))

\* A client sends a request.
InitRedirect ==
    /\ NoCacheActivity
    /\ NoPageRequest
    /\ NoScheduler
    /\ NoSnapshotActivity
    /\ NoListsModel
    /\ NoLogging
    /\ NoRecommendationRequest
    /\ redirPc = "sent"
    /\ first_request_query \in QueryStrings
    /\ request_query = first_request_query
    /\ redirect_response = NoRedirectResponse
    /\ app_query = {}
    /\ redirects = 0

\* __call__, the query has a second query string: a 301 redirect to the URL
\* with the first query string only.
RedirectDoubleQueryString ==
    /\ redirPc = "sent"
    /\ request_query # << >>
    /\ Len(split_maxsplit_1(request_query)) > 1
    /\ redirect_response' =
          [status_code |-> "301", url |-> url_with_query(split_maxsplit_1(request_query)[1])]
    /\ redirPc' = "redirected"
    /\ UNCHANGED << first_request_query, request_query, app_query, redirects >>
    /\ UNCHANGED notRedirVars

\* __call__, otherwise: the wrapped app is called with the scope.
CallApp ==
    /\ redirPc = "sent"
    /\ request_query = << >> \/ Len(split_maxsplit_1(request_query)) = 1
    /\ app_query' = {request_query}
    /\ redirPc' = "app"
    /\ UNCHANGED << first_request_query, request_query, redirect_response, redirects >>
    /\ UNCHANGED notRedirVars

\* The client follows the redirect: it sends a request for the URL of the
\* response.
ClientFollowsRedirect ==
    /\ redirPc = "redirected"
    /\ request_query' = query_of_url(redirect_response.url)
    /\ redirects' = redirects + 1
    /\ redirPc' = "sent"
    /\ UNCHANGED << first_request_query, redirect_response, app_query >>
    /\ UNCHANGED notRedirVars

NextRedirect ==
    \/ RedirectDoubleQueryString
    \/ CallApp
    \/ ClientFollowsRedirect

SpecRedirect == InitRedirect /\ [][NextRedirect]_vars

\* The part of a string before its first "?" (all of it when it has none).
BeforeFirstQuestionMark(s) ==
    SubSeq(s, 1, Len(s) - Cardinality({i \in 1 .. Len(s) : \E j \in QuestionMarks(s) : j <= i}))

\* C30: the double query string redirect converges.  A request whose query
\* holds a "?" is answered with a 301 redirect to the URL whose query is the
\* part before the first "?", every other request reaches the wrapped app
\* with its query unchanged, the redirect target has no "?" in its query,
\* and the client reaches the app after at most one redirect.
C30_RedirectConverges ==
    /\ redirPc = "redirected" =>
          /\ QuestionMarks(request_query) # {}
          /\ redirect_response.status_code = "301"
          /\ redirect_response.url =
                url_with_query(BeforeFirstQuestionMark(request_query))
          /\ QuestionMarks(query_of_url(redirect_response.url)) = {}
          /\ redirects = 0
    /\ redirPc = "app" =>
          /\ app_query = {request_query}
          /\ QuestionMarks(request_query) = {}
          /\ request_query = BeforeFirstQuestionMark(first_request_query)
          /\ redirects = (IF QuestionMarks(first_request_query) = {} THEN 0 ELSE 1)
    /\ redirects <= 1
    /\ (redirPc = "sent" /\ redirects = 1) => QuestionMarks(request_query) = {}

\* A request with three query strings was redirected once and the app was
\* called with the first of them.
C30_Witness ==
    /\ redirPc = "app"
    /\ redirects = 1
    /\ Cardinality(QuestionMarks(first_request_query)) = 2
    /\ app_query = {<< "a" >>}
    /\ redirect_response.url = << "/", "?", "a" >>

====
